---- MODULE Spec2Model ----
(***************************************************************************)
(* Storage-engine core of GiantDB (a BusTub derivative): the buffer pool   *)
(* manager and its clock replacer, modelled operation by operation from    *)
(* src/bustub-master/src/container/hash/linear_probe_hash_table.cpp (the   *)
(* file also carries buffer_pool_manager.cpp and clock_replacer.cpp).      *)
(***************************************************************************)
EXTENDS Integers, Sequences, FiniteSets, TLC

\* ---------------------------------------------------------------- bounds
PoolSize == 2
MaxPages == 2
MaxData == 1
MaxFree == 2
SlotsPerPage == 2
MaxBlocks == 3
MaxBuckets == 3
MaxKey == 3
MaxValue == 0
MaxLsn == 5
MaxFlushes == 2
MaxTupleLen == 2
LOG_BUFFER_SIZE == 64
MaxInserts == 2
MaxRedos == 2
NumPages == 3
MaxPoolCalls == 4
MaxTableCalls == 3

\* ------------------------------------------------------- program constants
INVALID_PAGE_ID == -1
INVALID_LSN == -1

Frames == 0 .. (PoolSize - 1)
PageIds == 0 .. (MaxPages - 1)
Data == 0 .. MaxData

\* The null Page pointer, and the value of an unset frame_id_t / page_id_t local.
NullFrame == 0 - 1

VARIABLES
    pages,         \* pages_[frame]: page_id_, pin_count_, is_dirty_, data_
    page_table,    \* page_table_: page id -> frame id (std::unordered_map)
    free_list,     \* free_list_: std::list<frame_id_t>
    clock_set,     \* ClockReplacer::clock_set_: vector of <<frame, ref bit>>
    cur_ptr,       \* ClockReplacer::cur_ptr_ (0-based hand)
    disk,          \* the disk store's pages: page id -> bytes
    next_page_id,  \* the disk store's allocation counter
    deallocated,   \* the page ids the disk store was told to deallocate
    persistent_lsn,\* LogManager::persistent_lsn_
    ht,            \* the LinearProbeHashTable: its pages, size_, flags and latch
    live,          \* the (key, value) pairs whose last operation was an Insert
    ht_ret,        \* the last hash table call: its arguments and what it returned
    calls,         \* the Insert each thread of a concurrent run is in, and where
    lm,            \* the LogManager: buffers, offset_, next_lsn_, flush_future_, threads
    wire,          \* one log record, the bytes written for it, the record read back
    ret,           \* the last call: its arguments, locals and return value
    rv,           \* LogRecovery after a crash: log stream, table pages, active_txn_, lsn_mapping_
    cr_ret,       \* the last ClockReplacer call made on its own: argument, what it returned
    bp,           \* the pool latch: its holder, each thread's place in its call, the last step
    hp,           \* the table's pages in the pool: pin counts, dirty bits, the calls made
    rw            \* a ReaderWriterLatch: writer_entered_, reader_count_, where each thread is

\* What the buffer pool manager never touches: it holds log_manager_ and calls
\* nothing on it.
outsidePool == <<persistent_lsn, ht, live, ht_ret, calls, lm, wire, rv, cr_ret, bp, hp, rw>>

vars == <<pages, page_table, free_list, clock_set, cur_ptr, disk, next_page_id, deallocated, ret,
          outsidePool>>

\* ------------------------------------------------------------ Page objects
\* A freshly constructed Page: invalid id, unpinned, clean, zeroed bytes.
NewPageObject == [page_id |-> INVALID_PAGE_ID, pin_count |-> 0, is_dirty |-> FALSE, data |-> 0]

\* Page::ResetMemory zeroes the bytes and nothing else.
ResetMemory(pg) == [pg EXCEPT !.data = 0]

\* ------------------------------------------------------------- disk store
\* DiskManager::WritePage: a write to a negative page id seeks before the start
\* of the file and stores nothing.
WritePage(d, page_id, bytes) ==
    IF page_id \in DOMAIN d THEN [d EXCEPT ![page_id] = bytes] ELSE d

\* DiskManager::ReadPage
ReadPage(d, page_id) == d[page_id]

\* ------------------------------------------------------ std::unordered_map
MapErase(m, k) == [q \in (DOMAIN m) \ {k} |-> m[q]]

MapPut(m, k, v) == [q \in (DOMAIN m) \cup {k} |-> IF q = k THEN v ELSE m[q]]

\* operator[] default-constructs the value (frame id 0) of a missing key.
MapIndex(m, k) == IF k \in DOMAIN m THEN m ELSE MapPut(m, k, 0)

\* -------------------------------------------------------------- sequences
RemoveAt(s, i) == [j \in 1 .. (Len(s) - 1) |-> IF j < i THEN s[j] ELSE s[j + 1]]

SeqRange(s) == {s[i] : i \in 1 .. Len(s)}

\* ----------------------------------------------------------- ClockReplacer
ReplacerFrames(cs) == {cs[i][1] : i \in 1 .. Len(cs)}

\* ClockReplacer::Size
Size(cs) == Len(cs)

\* The while(true) loop of Victim with the hand inside the vector.
RECURSIVE VictimScan(_, _)
VictimScan(cs, cur) ==
    IF cs[cur + 1][2] = 0
    THEN [found |-> TRUE, frame |-> cs[cur + 1][1], cs |-> RemoveAt(cs, cur + 1), cur |-> cur]
    ELSE VictimScan([cs EXCEPT ![cur + 1] = <<cs[cur + 1][1], 0>>], (cur + 1) % Len(cs))

\* ClockReplacer::Victim: the set of outcomes. With the hand past the end of the
\* vector the first read is out of bounds: it yields any frame with any reference
\* bit, and erasing at that position leaves the vector as it is or drops its
\* last element.
Victim(cs, cur) ==
    IF Size(cs) = 0
    THEN {[found |-> FALSE, frame |-> NullFrame, cs |-> cs, cur |-> cur]}
    ELSE IF cur < Len(cs)
    THEN {VictimScan(cs, cur)}
    ELSE {[found |-> TRUE, frame |-> f, cs |-> c, cur |-> cur] :
              f \in Frames, c \in {cs, SubSeq(cs, 1, Len(cs) - 1)}}
         \cup {VictimScan(cs, (cur + 1) % Len(cs))}

\* ClockReplacer::Unpin
Unpin(cs, frame_id) ==
    IF \E i \in 1 .. Len(cs) : cs[i][1] = frame_id
    THEN LET i == CHOOSE j \in 1 .. Len(cs) :
                      cs[j][1] = frame_id /\ \A k \in 1 .. (j - 1) : cs[k][1] # frame_id
         IN [cs EXCEPT ![i] = <<frame_id, 1>>]
    ELSE Append(cs, <<frame_id, 1>>)

\* ClockReplacer::Pin: the first entry of the frame is erased and the hand
\* set to its index.
Pin(cs, cur, frame_id) ==
    IF \E i \in 1 .. Len(cs) : cs[i][1] = frame_id
    THEN [cs |-> RemoveAt(cs, CHOOSE i \in 1 .. Len(cs) :
                                cs[i][1] = frame_id /\ \A k \in 1 .. (i - 1) : cs[k][1] # frame_id),
          cur |-> (CHOOSE i \in 1 .. Len(cs) :
                      cs[i][1] = frame_id /\ \A k \in 1 .. (i - 1) : cs[k][1] # frame_id) - 1]
    ELSE [cs |-> cs, cur |-> cur]

\* What a ClockReplacer call made on its own leaves for the caller.
ReplacerCall(op, frame_id, found) == [op |-> op, frame_id |-> frame_id, found |-> found]

\* ------------------------------------------------------- BufferPoolManager
TypeOK ==
    /\ pages \in [Frames -> [page_id : PageIds \cup {INVALID_PAGE_ID}, pin_count : Nat,
                             is_dirty : BOOLEAN, data : Data]]
    /\ DOMAIN page_table \subseteq PageIds
    /\ \A p \in DOMAIN page_table : page_table[p] \in Frames
    /\ SeqRange(free_list) \subseteq Frames
    /\ ReplacerFrames(clock_set) \subseteq Frames
    /\ cur_ptr \in Nat
    /\ disk \in [PageIds -> Data]
    /\ next_page_id \in 0 .. MaxPages

Call(op, page_id, is_dirty, result, frame, old_page_id) ==
    [op |-> op, page_id |-> page_id, is_dirty |-> is_dirty, result |-> result,
     frame |-> frame, old_page_id |-> old_page_id]

\* BufferPoolManager::BufferPoolManager: every frame starts in the free list.
PoolInit ==
    /\ pages = [f \in Frames |-> NewPageObject]
    /\ page_table = <<>>
    /\ free_list = [i \in 1 .. PoolSize |-> i - 1]
    /\ clock_set = <<>>
    /\ cur_ptr = 0
    /\ disk = [p \in PageIds |-> 0]
    /\ next_page_id = 0
    /\ deallocated = {}
    /\ ret = Call("Init", INVALID_PAGE_ID, FALSE, NullFrame, NullFrame, INVALID_PAGE_ID)

\* Page::GetLSN reads the LSN field of the page's bytes; the bytes the model
\* keeps of a page are that field.
GetLSN(pg) == pg.data

\* The frame a miss takes: the front of the free list, else the replacer's victim.
\* The set of outcomes; found = FALSE when no frame is available.
FindFrame ==
    IF free_list # <<>>
    THEN {[found |-> TRUE, frame |-> Head(free_list), fl |-> Tail(free_list),
           cs |-> clock_set, cur |-> cur_ptr]}
    ELSE {[found |-> v.found, frame |-> v.frame, fl |-> free_list, cs |-> v.cs, cur |-> v.cur] :
              v \in Victim(clock_set, cur_ptr)}

\* The scan of page_table_ for the entry that maps to frame: the outcomes
\* <<old_page_id, page table after>>. The first matching entry in the map's
\* iteration order is replaced by page_id -> frame; without a match the table
\* stays as it is and old_page_id stays -1.
ReplaceMapping(pt, frame, page_id) ==
    LET matches == {q \in DOMAIN pt : pt[q] = frame}
    IN IF matches = {}
       THEN {<<INVALID_PAGE_ID, pt>>}
       ELSE {<<q, MapPut(MapErase(pt, q), page_id, frame)>> : q \in matches}

\* The metadata FetchPageImpl gives the frame it took.
FetchedPage(pg, page_id, bytes) ==
    [pg EXCEPT !.is_dirty = FALSE, !.page_id = page_id, !.pin_count = 1, !.data = bytes]

\* BufferPoolManager::FetchPageImpl
FetchPageImpl(page_id) ==
    IF page_id \in DOMAIN page_table
    THEN /\ ret' = Call("FetchPage", page_id, FALSE, page_table[page_id], NullFrame, INVALID_PAGE_ID)
         /\ UNCHANGED <<pages, page_table, free_list, clock_set, cur_ptr, disk, next_page_id, deallocated>>
    ELSE \E c \in FindFrame :
            IF ~c.found
            THEN /\ ret' = Call("FetchPage", page_id, FALSE, NullFrame, NullFrame, INVALID_PAGE_ID)
                 /\ UNCHANGED <<pages, page_table, free_list, clock_set, cur_ptr, disk, next_page_id, deallocated>>
            ELSE \E m \in ReplaceMapping(page_table, c.frame, page_id) :
                    LET d2 == IF pages[c.frame].is_dirty
                              THEN WritePage(disk, m[1], pages[c.frame].data)
                              ELSE disk
                    IN /\ free_list' = c.fl
                       /\ clock_set' = c.cs
                       /\ cur_ptr' = c.cur
                       /\ page_table' = m[2]
                       /\ disk' = d2
                       /\ pages' = [pages EXCEPT ![c.frame] = FetchedPage(@, page_id, ReadPage(d2, page_id))]
                       /\ ret' = Call("FetchPage", page_id, FALSE, NullFrame, c.frame, m[1])
                       /\ UNCHANGED <<next_page_id, deallocated>>

\* UnpinPageImpl with the dirty flag stored before the pin_count test: a call
\* on an unpinned frame overwrites the bit too.
UnpinPageImpl_DirtyBeforeCheck(page_id, is_dirty) ==
    LET pt == MapIndex(page_table, page_id)
        frame_id == pt[page_id]
    IN /\ page_table' = pt
       /\ IF pages[frame_id].pin_count <= 0
          THEN /\ pages' = [pages EXCEPT ![frame_id].is_dirty = is_dirty]
               /\ ret' = Call("UnpinPage", page_id, is_dirty, 0, frame_id, INVALID_PAGE_ID)
               /\ UNCHANGED clock_set
          ELSE /\ pages' = [pages EXCEPT ![frame_id].is_dirty = is_dirty,
                                         ![frame_id].pin_count = @ - 1]
               /\ clock_set' = IF pages[frame_id].pin_count = 1
                               THEN Unpin(clock_set, frame_id)
                               ELSE clock_set
               /\ ret' = Call("UnpinPage", page_id, is_dirty, 1, frame_id, INVALID_PAGE_ID)
       /\ UNCHANGED <<free_list, cur_ptr, disk, next_page_id, deallocated>>

\* BufferPoolManager::UnpinPageImpl
UnpinPageImpl(page_id, is_dirty) ==
    LET pt == MapIndex(page_table, page_id)
        frame_id == pt[page_id]
    IN /\ page_table' = pt
       /\ IF pages[frame_id].pin_count <= 0
          THEN /\ ret' = Call("UnpinPage", page_id, is_dirty, 0, frame_id, INVALID_PAGE_ID)
               /\ UNCHANGED <<pages, clock_set>>
          ELSE /\ pages' = [pages EXCEPT ![frame_id].is_dirty = is_dirty,
                                         ![frame_id].pin_count = @ - 1]
               /\ clock_set' = IF pages[frame_id].pin_count = 1
                               THEN Unpin(clock_set, frame_id)
                               ELSE clock_set
               /\ ret' = Call("UnpinPage", page_id, is_dirty, 1, frame_id, INVALID_PAGE_ID)
       /\ UNCHANGED <<free_list, cur_ptr, disk, next_page_id, deallocated>>

\* BufferPoolManager::FlushPageImpl
FlushPageImpl(page_id) ==
    IF page_id = INVALID_PAGE_ID
    THEN /\ ret' = Call("FlushPage", page_id, FALSE, 0, NullFrame, INVALID_PAGE_ID)
         /\ UNCHANGED <<pages, page_table, free_list, clock_set, cur_ptr, disk, next_page_id, deallocated>>
    ELSE IF page_id \in DOMAIN page_table /\ pages[page_table[page_id]].is_dirty
    THEN LET frame_id == page_table[page_id]
         IN /\ disk' = WritePage(disk, page_id, pages[frame_id].data)
            /\ pages' = [pages EXCEPT ![frame_id].is_dirty = FALSE]
            /\ ret' = Call("FlushPage", page_id, FALSE, 1, frame_id, INVALID_PAGE_ID)
            /\ UNCHANGED <<page_table, free_list, clock_set, cur_ptr, next_page_id, deallocated>>
    ELSE /\ ret' = Call("FlushPage", page_id, FALSE, 1, NullFrame, INVALID_PAGE_ID)
         /\ UNCHANGED <<pages, page_table, free_list, clock_set, cur_ptr, disk, next_page_id, deallocated>>

\* NewPageImpl without the ResetMemory call: the frame keeps the bytes of the
\* page it held.
CreatedPage_NoReset(pg, page_id) ==
    [pg EXCEPT !.is_dirty = FALSE, !.page_id = page_id, !.pin_count = 1]

\* The metadata NewPageImpl gives the frame it took.
CreatedPage(pg, page_id) ==
    ResetMemory([pg EXCEPT !.is_dirty = FALSE, !.page_id = page_id, !.pin_count = 1])

\* BufferPoolManager::NewPageImpl. AllocatePage runs before a frame is looked
\* for, so the id is consumed also when the call returns null.
NewPageImpl ==
    /\ next_page_id < MaxPages
    /\ LET page_id == next_page_id
       IN /\ next_page_id' = next_page_id + 1
          /\ \E c \in FindFrame :
                IF ~c.found
                THEN /\ ret' = Call("NewPage", page_id, FALSE, NullFrame, NullFrame, INVALID_PAGE_ID)
                     /\ UNCHANGED <<pages, page_table, free_list, clock_set, cur_ptr, disk, deallocated>>
                ELSE \E m \in ReplaceMapping(page_table, c.frame, page_id) :
                        /\ free_list' = c.fl
                        /\ clock_set' = c.cs
                        /\ cur_ptr' = c.cur
                        /\ page_table' = m[2]
                        /\ disk' = IF pages[c.frame].is_dirty
                                   THEN WritePage(disk, m[1], pages[c.frame].data)
                                   ELSE disk
                        /\ pages' = [pages EXCEPT ![c.frame] = CreatedPage(@, page_id)]
                        /\ ret' = Call("NewPage", page_id, FALSE, c.frame, c.frame, m[1])
                        /\ UNCHANGED deallocated

\* BufferPoolManager::DeletePageImpl. Nothing keeps a frame from being appended
\* to free_list_ again and again; the model stops appending at MaxFree entries.
DeletePageImpl(page_id) ==
    IF page_id \notin DOMAIN page_table
    THEN /\ ret' = Call("DeletePage", page_id, FALSE, 1, NullFrame, INVALID_PAGE_ID)
         /\ UNCHANGED <<pages, page_table, free_list, clock_set, cur_ptr, disk, next_page_id, deallocated>>
    ELSE LET frame_id == page_table[page_id]
         IN IF pages[frame_id].pin_count # 0
            THEN /\ ret' = Call("DeletePage", page_id, FALSE, 0, frame_id, INVALID_PAGE_ID)
                 /\ UNCHANGED <<pages, page_table, free_list, clock_set, cur_ptr, disk, next_page_id, deallocated>>
            ELSE /\ Len(free_list) < MaxFree
                 /\ page_table' = MapErase(page_table, page_id)
                 /\ pages' = [pages EXCEPT ![frame_id] = ResetMemory(@)]
                 /\ free_list' = Append(free_list, frame_id)
                 /\ ret' = Call("DeletePage", page_id, FALSE, 1, frame_id, INVALID_PAGE_ID)
                 /\ UNCHANGED <<clock_set, cur_ptr, disk, next_page_id, deallocated>>

\* BufferPoolManager::FlushAllPagesImpl. The loop visits the entries of
\* page_table_ in the map's iteration order: of the entries that map to one dirty
\* frame, the first visited is written under its key and clears the dirty bit.
FlushAllPagesImpl ==
    LET dirtyFrames == {f \in Frames : pages[f].is_dirty /\ \E p \in DOMAIN page_table : page_table[p] = f}
    IN \E first \in [dirtyFrames -> DOMAIN page_table] :
          /\ \A f \in dirtyFrames : page_table[first[f]] = f
          /\ disk' = [p \in PageIds |->
                         IF \E f \in dirtyFrames : first[f] = p
                         THEN pages[CHOOSE f \in dirtyFrames : first[f] = p].data
                         ELSE disk[p]]
          /\ pages' = [f \in Frames |->
                         IF f \in dirtyFrames THEN [pages[f] EXCEPT !.is_dirty = FALSE] ELSE pages[f]]
          /\ ret' = Call("FlushAllPages", INVALID_PAGE_ID, FALSE, 1, NullFrame, INVALID_PAGE_ID)
          /\ UNCHANGED <<page_table, free_list, clock_set, cur_ptr, next_page_id, deallocated>>

\* A caller that holds a pinned page changes its bytes through the Page pointer.
WriteData(frame, bytes) ==
    /\ pages[frame].pin_count > 0
    /\ pages' = [pages EXCEPT ![frame].data = bytes]
    /\ ret' = Call("WriteData", pages[frame].page_id, FALSE, frame, frame, INVALID_PAGE_ID)
    /\ UNCHANGED <<page_table, free_list, clock_set, cur_ptr, disk, next_page_id, deallocated>>

\* ------------------------------------------------- observations of a step
IsNull(r) == r.result = NullFrame

Resident(page_id) == page_id \in DOMAIN page_table

InFreeList(f) == f \in SeqRange(free_list)

InReplacer(f) == f \in ReplacerFrames(clock_set)

Pinned(f) == pages[f].pin_count > 0

PageTableTargets == {page_table[p] : p \in DOMAIN page_table}

\* The call of the step took frame f for a new page (miss path of FetchPage, NewPage).
Reused(f) == ret'.op \in {"FetchPage", "NewPage"} /\ ret'.frame = f

\* ------------------------------------------------------------------ claims

\* C1: every successful FetchPage(p) returns a frame whose pin_count this call
\* incremented (by one on a hit, to 1 on a miss) and that is not in the replacer.
C1_FetchPagePins ==
    [][(ret'.op = "FetchPage" /\ ~IsNull(ret'))
          => LET f == ret'.result
             IN /\ pages'[f].pin_count =
                      (IF Resident(ret'.page_id) THEN pages[f].pin_count + 1 ELSE 1)
                /\ f \notin ReplacerFrames(clock_set')]_vars

\* C2: FetchPage(p) returns null exactly when p is not resident, the free list is
\* empty and the replacer is empty; otherwise it returns the frame that holds p.
C2_FetchPageNullIffNoFrame ==
    [][ret'.op = "FetchPage"
          => /\ IsNull(ret') <=>
                   (~Resident(ret'.page_id) /\ free_list = <<>> /\ Size(clock_set) = 0)
             /\ ~IsNull(ret') => pages'[ret'.result].page_id = ret'.page_id]_vars

\* C3: page id p is held by frame f exactly when page_table maps p to f.
C3_PageTableMatchesFrames ==
    \A p \in PageIds : \A f \in Frames :
        (pages[f].page_id = p) <=> (Resident(p) /\ page_table[p] = f)

\* C4: every pin_count is >= 0 and no frame is both in the free list and the
\* target of a page_table entry.
C4_PinCountAndFreeList ==
    \A f \in Frames :
        /\ pages[f].pin_count >= 0
        /\ ~(InFreeList(f) /\ f \in PageTableTargets)

\* C5: each frame is in at most one of the free list, the replacer, the pinned set.
C5_FrameInOnePlace ==
    \A f \in Frames :
        /\ ~(InFreeList(f) /\ InReplacer(f))
        /\ ~(InFreeList(f) /\ Pinned(f))
        /\ ~(InReplacer(f) /\ Pinned(f))

\* No frame holds page_id and page_table has no entry for it.
NotInPool(page_id) == ~Resident(page_id) /\ \A f \in Frames : pages[f].page_id # page_id

\* C6: UnpinPage(p, d) on a page that is not in the pool, or whose frame has
\* pin_count 0, returns false and changes neither page_table, nor any pin_count
\* or dirty bit, nor the free list, nor the replacer.
C6_InvalidUnpinNoMutation ==
    [][(/\ ret'.op = "UnpinPage"
        /\ \/ NotInPool(ret'.page_id)
           \/ Resident(ret'.page_id) /\ pages[page_table[ret'.page_id]].pin_count = 0)
          => /\ ret'.result = 0
             /\ page_table' = page_table
             /\ \A f \in Frames : /\ pages'[f].pin_count = pages[f].pin_count
                                  /\ pages'[f].is_dirty = pages[f].is_dirty
             /\ free_list' = free_list
             /\ clock_set' = clock_set
             /\ cur_ptr' = cur_ptr]_vars

C8_DirtyVictimWrittenBack ==
    [][\A f \in Frames :
          (/\ Reused(f)
           /\ free_list = <<>>
           /\ pages[f].is_dirty
           /\ pages[f].page_id # INVALID_PAGE_ID)
             => disk'[pages[f].page_id] = pages[f].data]_vars

\* C9: FlushAllPages leaves, for every dirty frame of the pool (one that is not
\* in the free list) that holds a page A, the frame's bytes on disk under A and
\* the frame clean.
C9_FlushAllWritesEveryDirtyPage ==
    [][ret'.op = "FlushAllPages"
          => \A f \in Frames :
                (/\ pages[f].is_dirty
                 /\ pages[f].page_id # INVALID_PAGE_ID
                 /\ ~InFreeList(f))
                   => /\ disk'[pages[f].page_id] = pages'[f].data
                      /\ ~pages'[f].is_dirty]_vars

\* C10: NewPage returns null iff the free list is empty and the replacer has no
\* victim; otherwise it returns a frame holding the page id the disk store has
\* just allocated, with pin_count 1, clean and zeroed, taken from the front of
\* the free list whenever the free list is not empty.
C10_NewPageContract ==
    [][ret'.op = "NewPage"
          => /\ IsNull(ret') <=> (free_list = <<>> /\ Size(clock_set) = 0)
             /\ ~IsNull(ret')
                   => /\ ret'.page_id = next_page_id
                      /\ next_page_id' = next_page_id + 1
                      /\ pages'[ret'.result] =
                            [page_id |-> ret'.page_id, pin_count |-> 1,
                             is_dirty |-> FALSE, data |-> 0]
                      /\ free_list # <<>>
                            => /\ ret'.result = Head(free_list)
                               /\ free_list' = Tail(free_list)
                               /\ clock_set' = clock_set]_vars

\* C10 witness: NewPage has returned a frame the replacer gave up (the free
\* list was empty), replacing the page that frame held.
C10_Witness ==
    /\ ret.op = "NewPage"
    /\ ~IsNull(ret)
    /\ ret.old_page_id # INVALID_PAGE_ID
    /\ free_list = <<>>

\* What DeletePage(p) can change in the pool and in the disk store.
poolState == <<pages, page_table, free_list, clock_set, cur_ptr, disk, next_page_id, deallocated>>

\* C11: DeletePage(p) returns true and changes nothing if p is not resident;
\* returns false and changes nothing if p is resident with pin_count > 0;
\* otherwise it removes p from page_table, zeroes the frame, appends the frame
\* to the free list, tells the disk store to deallocate p, and returns true.
C11_DeletePageContract ==
    [][ret'.op = "DeletePage"
          => LET p == ret'.page_id
             IN IF ~Resident(p)
                THEN ret'.result = 1 /\ UNCHANGED poolState
                ELSE IF pages[page_table[p]].pin_count > 0
                THEN ret'.result = 0 /\ UNCHANGED poolState
                ELSE /\ ret'.result = 1
                     /\ p \notin DOMAIN page_table'
                     /\ pages'[page_table[p]].data = 0
                     /\ free_list' = Append(free_list, page_table[p])
                     /\ p \in deallocated']_vars

\* ------------------------------------------------------- the pool latch
\* Threads on one BufferPoolManager. A call that takes latch_ waits at its
\* lock_guard until the latch is free, runs its body and releases the latch on
\* return; FlushPageImpl has no lock_guard and runs as its statements come.
PoolThreads == {1, 2}
NoLatch == 0

PoolIdle ==
    [latch |-> NoLatch, step |-> "none", by |-> NoLatch, ops |-> 0,
     thr |-> [t \in PoolThreads |-> [pc |-> "idle", page_id |-> INVALID_PAGE_ID, frame_id |-> NullFrame]]]

Stepped(t, step) == [bp EXCEPT !.step = step, !.by = t]

\* ==================================================== LinearProbeHashTable
\* The hash table is modelled on a buffer pool that honours the contract of
\* FetchPage, NewPage and UnpinPage: a fetched page is the page of that id, and
\* NewPage returns null once the pool has no frame left (MaxBlocks block pages
\* fit). What the pool of this repository does instead is the subject of C1-C6.
\* A logical slot number pos stands for block bucket_id = pos \div SlotsPerPage,
\* slot_idx = pos % SlotsPerPage: the code advances hash_val and slot_idx
\* together and moves to the next block when slot_idx reaches slot_num_per_page_.
Keys == 0 .. MaxKey
Values == 0 .. MaxValue

\* The thread that constructs the table and calls it in single-threaded runs.
MainThread == 1
HTThreads == {1, 2}

\* Insert gives up when the probe moves to the block with this index.
LastBucket == 4080

\* HashFunction::GetHash is a fixed function of the key; the model names a key
\* by its hash value.
GetHash(key) == key

\* A slot of a zeroed block page.
EmptySlot == [occupied |-> FALSE, readable |-> FALSE, key |-> 0, value |-> 0]

EmptySlots(n) == [i \in 1 .. n |-> EmptySlot]

\* HashTableBlockPage::Insert
BlockInsert(slot, key, value) ==
    IF slot.readable
    THEN [ok |-> FALSE, slot |-> slot]
    ELSE [ok |-> TRUE, slot |-> [occupied |-> TRUE, readable |-> TRUE, key |-> key, value |-> value]]

\* HashTableBlockPage::Remove clears the readable bit and nothing else.
BlockRemove(slot) == [slot EXCEPT !.readable = FALSE]

\* HashTableBlockPage::IsOccupied
IsOccupied(T, pos) == T.slots[pos + 1].occupied

\* HashTableBlockPage::IsReadable
IsReadable(T, pos) == T.slots[pos + 1].readable

\* HashTableBlockPage::KeyAt
KeyAt(T, pos) == T.slots[pos + 1].key

\* HashTableBlockPage::ValueAt
ValueAt(T, pos) == T.slots[pos + 1].value

\* HashTableHeaderPage::GetSize: the number of block pages in the header.
NumBlocks(T) == Len(T.slots) \div SlotsPerPage

\* The pages of the table in a buffer pool nothing else allocates from: the
\* constructor's first NewPage gives the header page, every later one the next
\* block page.
HeaderPageId == 0

\* HashTableHeaderPage::GetBlockPageId: the entry of block_page_ids_ at idx;
\* an entry AddBlockPageId never wrote holds the zero NewPage left there.
GetBlockPageId(T, idx) == IF idx >= 0 /\ idx < NumBlocks(T) THEN idx + 1 ELSE 0

\* A call of the buffer pool made during a call of the table.
PoolCall(call, page_id, is_dirty) == [call |-> call, page_id |-> page_id, is_dirty |-> is_dirty]

\* buffer_pool_manager_->FetchPage / NewPage / UnpinPage made on table T.
Pooled(T, call, page_id, is_dirty) == [T EXCEPT !.pool = Append(@, PoolCall(call, page_id, is_dirty))]

\* ReaderWriterLatch::WLock. The latch is not reentrant: a thread that asks for
\* it during a call in which the latch is taken waits for a WUnlock that only
\* this call could issue, and the call never returns (status "hang").
WLock(T) ==
    IF T.writer_entered
    THEN [T EXCEPT !.status = "hang"]
    ELSE [T EXCEPT !.writer_entered = TRUE, !.wlocks = @ + 1]

\* ReaderWriterLatch::WUnlock
WUnlock(T) == [T EXCEPT !.writer_entered = FALSE, !.wunlocks = @ + 1]

\* A statement of Insert's body behind the probe loop runs: bare records that
\* the write latch is not taken at that point.
InBody(T) == [T EXCEPT !.bare = @ \/ ~T.writer_entered]

\* The test in front of every WLock/WUnlock of Insert and Remove.
TakesLatch(T, me) == T.resize_thread_id # me \/ ~T.is_resizing

\* Insert up to the probe loop: the latch, then is_inserting_ = true.
InsertEnter(T, me) ==
    LET L == IF TakesLatch(T, me) THEN WLock(T) ELSE T
    IN IF L.status = "ok" THEN [L EXCEPT !.is_inserting = TRUE] ELSE L

\* The WUnlock at the three return statements of Insert.
InsertUnlock(T, me, result) ==
    [(IF TakesLatch(T, me) THEN WUnlock(T) ELSE T) EXCEPT !.result = result]

\* The statement after that WUnlock: is_inserting_ = false.
InsertLeave(T) == [T EXCEPT !.is_inserting = FALSE]

RECURSIVE InsertProbe(_, _, _, _, _)
RECURSIVE Rehash(_, _, _, _)

\* The return of Insert after the probe loop.
InsertEnd(P) == IF P.status # "ok" THEN P ELSE InsertLeave(P)

\* Insert, lines 96-99: the header page and the block page of the first slot
\* are fetched.
InsertFetch(E, hash_val) ==
    Pooled(Pooled(E, "FetchPage", HeaderPageId, FALSE),
           "FetchPage", GetBlockPageId(E, hash_val \div SlotsPerPage), FALSE)

\* The two UnpinPage calls before Insert returns from behind the probe loop:
\* the first names the block by bucket_id, its index in the header.
InsertUnpin(T, hash_val, is_dirty) ==
    Pooled(Pooled(T, "UnpinPage", hash_val \div SlotsPerPage, is_dirty),
           "UnpinPage", HeaderPageId, FALSE)

\* Insert from its first probe on; E is the table after InsertEnter.
InsertStart(E, me, key, value) ==
    IF E.status # "ok"
    THEN E
    ELSE InsertEnd(InsertProbe(InsertFetch(E, GetHash(key) % E.size), me, key, value,
                               GetHash(key) % E.size))

\* LinearProbeHashTable::Insert, the whole call.
InsertRun(T, me, key, value) == InsertStart(InsertEnter(T, me), me, key, value)

\* Resize up to the allocation loop: the latch, resize_thread_id_, is_resizing_.
ResizeEnter(T, me) ==
    IF ~T.is_inserting /\ T.writer_entered
    THEN [T EXCEPT !.status = "hang"]
    ELSE [(IF ~T.is_inserting THEN WLock(T) ELSE T) EXCEPT !.resize_thread_id = me,
                                                          !.is_resizing = TRUE]

\* The block pages Resize(initial_size) has to add to the header.
PagesToAdd(T, initial_size) ==
    LET new_page_num == (initial_size + SlotsPerPage - 1) \div SlotsPerPage
    IN IF new_page_num > NumBlocks(T) THEN new_page_num - NumBlocks(T) ELSE 0

\* The allocation loop of Resize: NewPage and AddBlockPageId until the header
\* holds new_page_num block pages or NewPage returns null.
Grown(T, initial_size) ==
    LET need == PagesToAdd(T, initial_size)
        got == IF need <= T.avail THEN need ELSE T.avail
    IN [T EXCEPT !.slots = @ \o EmptySlots(got * SlotsPerPage), !.avail = @ - got,
                 !.grow_failed = (@ \/ got < need),
                 !.pool = @ \o [j \in 1 .. got |-> PoolCall("NewPage", NumBlocks(T) + j, FALSE)]]

\* The return of Resize when NewPage returned null: size_ and is_resizing_ stay.
ResizeGiveUp(G) ==
    IF ~G.is_inserting
    THEN WUnlock(Pooled(G, "UnpinPage", HeaderPageId, TRUE))
    ELSE Pooled(G, "UnpinPage", HeaderPageId, TRUE)

\* The end of Resize after the rehash loop.
ResizeEnd(H, initial_size, old_size) ==
    IF H.status # "ok"
    THEN H
    ELSE [(IF ~H.is_inserting THEN WUnlock(H) ELSE H)
             EXCEPT !.size = initial_size, !.is_resizing = FALSE,
                    !.resized = (@ \/ initial_size > old_size),
                    !.pool = Append(@, PoolCall("UnpinPage", HeaderPageId, TRUE))]

\* Resize, line 219: the header page is fetched.
ResizeFetch(M) == Pooled(M, "FetchPage", HeaderPageId, FALSE)

\* Resize after ResizeEnter.
ResizeBody(M, me, initial_size) ==
    IF M.status # "ok"
    THEN M
    ELSE IF PagesToAdd(M, initial_size) > M.avail
    THEN ResizeGiveUp(Grown(ResizeFetch(M), initial_size))
    ELSE ResizeEnd(Rehash([Grown(ResizeFetch(M), initial_size) EXCEPT !.size = initial_size],
                          me, 0, M.size),
                   initial_size, M.size)

\* LinearProbeHashTable::Resize
ResizeRun(T, me, initial_size) == ResizeBody(ResizeEnter(T, me), me, initial_size)

\* Insert, line 120: the block page the probe leaves is unpinned.
InsertTurn(R, hash_val) ==
    Pooled(R, "UnpinPage", GetBlockPageId(R, (hash_val \div SlotsPerPage) - 1), FALSE)

\* The probe loop of Insert after slot_idx++ and hash_val++, R being the table
\* after the Resize the step may have called: the move to the next block. A
\* probe that moves to a block index the header does not hold reads an unset
\* entry of block_page_ids_ and goes on in whatever page that names (status
\* "wild").
InsertAdvance(R, me, key, value, hash_val) ==
    IF R.status # "ok"
    THEN R
    ELSE IF hash_val % SlotsPerPage # 0
    THEN InsertProbe(R, me, key, value, hash_val)
    ELSE IF hash_val \div SlotsPerPage >= LastBucket
    THEN InsertUnlock(Pooled(InsertTurn(R, hash_val), "UnpinPage", HeaderPageId, FALSE), me, FALSE)
    ELSE IF hash_val \div SlotsPerPage >= NumBlocks(R)
    THEN [InsertTurn(R, hash_val) EXCEPT !.status = "wild"]
    ELSE InsertProbe(Pooled(InsertTurn(R, hash_val), "FetchPage",
                            GetBlockPageId(R, hash_val \div SlotsPerPage), FALSE),
                     me, key, value, hash_val)

\* The slot the probe stopped at takes the pair.
InsertPlace(T, me, key, value, pos) ==
    InsertUnlock(InsertUnpin([InBody(T) EXCEPT !.slots[pos + 1] = BlockInsert(@, key, value).slot], pos, TRUE),
                 me, BlockInsert(T.slots[pos + 1], key, value).ok)

\* The probe loop of Insert from slot pos on, to the WUnlock before the return.
InsertProbe(T, me, key, value, pos) ==
    IF ~IsReadable(T, pos)
    THEN InsertPlace(T, me, key, value, pos)
    ELSE IF KeyAt(T, pos) = key /\ ValueAt(T, pos) = value
    THEN InsertUnlock(InsertUnpin(InBody(T), pos, FALSE), me, FALSE)
    ELSE InsertAdvance(IF pos + 1 >= T.size THEN ResizeRun(T, me, T.size * 2) ELSE T,
                       me, key, value, pos + 1)

\* Resize, lines 242-244: the block page of old slot i is fetched.
RehashFetch(T, i) == Pooled(T, "FetchPage", GetBlockPageId(T, i \div SlotsPerPage), FALSE)

\* Resize, line 253: the page unpinned is the header's entry at the index
\* old_page_id, the page id of the block fetched.
RehashUnpin(R, i) ==
    Pooled(R, "UnpinPage", GetBlockPageId(R, GetBlockPageId(R, i \div SlotsPerPage)), TRUE)

\* The rehash loop of Resize after old slot i; R is the table after the
\* Insert of the pair slot i held.
RehashNext(R, me, i, old_size) ==
    IF R.status # "ok" THEN R ELSE Rehash(RehashUnpin(R, i), me, i + 1, old_size)

\* The rehash loop of Resize over the old slots i .. old_size - 1.
Rehash(T, me, i, old_size) ==
    IF i >= old_size
    THEN T
    ELSE RehashNext(IF IsReadable(T, i)
                    THEN InsertRun([RehashFetch(T, i) EXCEPT !.slots[i + 1] = BlockRemove(@)], me,
                                   KeyAt(T, i), ValueAt(T, i))
                    ELSE RehashFetch(T, i),
                    me, i, old_size)

\* The probe loop of GetValue from slot pos on: the values pushed to result.
RECURSIVE GetValueProbe(_, _, _, _)
GetValueProbe(T, key, pos, result) ==
    IF ~IsOccupied(T, pos)
    THEN result
    ELSE LET pushed == IF IsReadable(T, pos) /\ KeyAt(T, pos) = key
                       THEN Append(result, ValueAt(T, pos))
                       ELSE result
         IN IF pos + 1 >= T.size THEN pushed ELSE GetValueProbe(T, key, pos + 1, pushed)

\* GetValue, lines 49-52, and Remove, lines 170-173: the header page and the
\* block page of the first slot are fetched.
ProbeFetch(T, hash_val) ==
    <<PoolCall("FetchPage", HeaderPageId, FALSE),
      PoolCall("FetchPage", GetBlockPageId(T, hash_val \div SlotsPerPage), FALSE)>>

\* GetValue, lines 68-74, and Remove, lines 190-197: at the end of a block
\* page the probe unpins it and fetches the next.
ProbeTurnCalls(T, hash_val) ==
    IF hash_val % SlotsPerPage # 0
    THEN <<>>
    ELSE <<PoolCall("UnpinPage", GetBlockPageId(T, (hash_val \div SlotsPerPage) - 1), FALSE),
           PoolCall("FetchPage", GetBlockPageId(T, hash_val \div SlotsPerPage), FALSE)>>

ProbeTurn(T, hash_val) == [T EXCEPT !.pool = @ \o ProbeTurnCalls(T, hash_val)]

\* The pool calls of GetValue's probe loop from slot pos on, to the two
\* UnpinPage calls of lines 77-78.
RECURSIVE GetValuePool(_, _, _)
GetValuePool(T, pos, made) ==
    IF ~IsOccupied(T, pos) \/ pos + 1 >= T.size
    THEN made \o <<PoolCall("UnpinPage", HeaderPageId, FALSE),
                   PoolCall("UnpinPage", GetBlockPageId(T, pos \div SlotsPerPage), FALSE)>>
    ELSE GetValuePool(T, pos + 1, made \o ProbeTurnCalls(T, pos + 1))

\* The pool calls of one GetValue(key).
GetValueCalls(T, key) == GetValuePool(T, GetHash(key) % T.size, ProbeFetch(T, GetHash(key) % T.size))

\* LinearProbeHashTable::GetValue
GetValueRun(T, key) == GetValueProbe(T, key, GetHash(key) % T.size, <<>>)

\* Remove, lines 198-199: the block page the probe ended in and the header
\* page are unpinned.
RemoveUnpin(T, hash_val) ==
    Pooled(Pooled(T, "UnpinPage", GetBlockPageId(T, hash_val \div SlotsPerPage), FALSE),
           "UnpinPage", HeaderPageId, FALSE)

\* The probe loop of Remove from slot pos on.
RECURSIVE RemoveProbe(_, _, _, _)
RemoveProbe(T, key, value, pos) ==
    IF ~IsOccupied(T, pos)
    THEN [RemoveUnpin(T, pos) EXCEPT !.result = FALSE]
    ELSE IF IsReadable(T, pos) /\ KeyAt(T, pos) = key /\ ValueAt(T, pos) = value
    THEN [RemoveUnpin(T, pos) EXCEPT !.slots[pos + 1] = BlockRemove(@), !.result = TRUE]
    ELSE IF pos + 1 >= T.size
    THEN [RemoveUnpin(T, pos) EXCEPT !.result = FALSE]
    ELSE RemoveProbe(ProbeTurn(T, pos + 1), key, value, pos + 1)

\* LinearProbeHashTable::Remove
RemoveRun(T, me, key, value) ==
    LET L == IF TakesLatch(T, me) THEN WLock(T) ELSE T
    IN IF L.status # "ok"
       THEN L
       ELSE LET P == RemoveProbe([L EXCEPT !.pool = @ \o ProbeFetch(L, GetHash(key) % L.size)],
                                 key, value, GetHash(key) % L.size)
            IN IF TakesLatch(P, me) THEN WUnlock(P) ELSE P

\* The table the constructor has before it calls Resize(num_buckets): a header
\* with one zeroed block page, size_ = slot_num_per_page_.
FirstTable ==
    [slots |-> EmptySlots(SlotsPerPage), size |-> SlotsPerPage, avail |-> MaxBlocks - 1,
     is_inserting |-> FALSE, is_resizing |-> FALSE, resize_thread_id |-> 0,
     writer_entered |-> FALSE, status |-> "ok", result |-> FALSE,
     grow_failed |-> FALSE, resized |-> FALSE, wlocks |-> 0, wunlocks |-> 0, bare |-> FALSE,
     pool |-> <<PoolCall("NewPage", HeaderPageId, FALSE), PoolCall("NewPage", 1, FALSE)>>]

\* What a call leaves in the table's members: the per-call observations
\* (return value, a failed NewPage, a completed grow, the pool calls made, the
\* WLock and WUnlock calls counted) are cleared.
Members(T) ==
    [T EXCEPT !.result = FALSE, !.grow_failed = FALSE, !.resized = FALSE, !.pool = <<>>,
              !.wlocks = 0, !.wunlocks = 0, !.bare = FALSE]

\* LinearProbeHashTable::LinearProbeHashTable
Constructed(num_buckets) == Members(ResizeRun(FirstTable, MainThread, num_buckets))

HTCall(op, tid, key, value, R, result) ==
    [op |-> op, tid |-> tid, key |-> key, value |-> value, result |-> result,
     status |-> R.status, grow_failed |-> R.grow_failed, resized |-> R.resized,
     wlocks |-> R.wlocks, wunlocks |-> R.wunlocks, bare |-> R.bare]

\* The live pairs of the table, as its slots hold them.
ReadablePairs(T) == {<<T.slots[i].key, T.slots[i].value>> : i \in {j \in 1 .. Len(T.slots) : T.slots[j].readable}}

\* No thread is inside a call of the table.
NoCalls == [t \in HTThreads |-> [pc |-> "idle", key |-> 0, result |-> FALSE]]

HTInit ==
    /\ \E num_buckets \in 1 .. MaxBuckets : ht = Constructed(num_buckets)
    /\ live = {}
    /\ ht_ret = HTCall("Init", MainThread, 0, 0, FirstTable, FALSE)
    /\ calls = NoCalls

\* The table can be called: no earlier call hangs on the latch, none has probed
\* outside the header's blocks.
Usable(T) == T.status = "ok"

\* Insert(key, value) by a single caller.
Insert(key, value) ==
    /\ Usable(ht)
    /\ LET R == InsertRun(ht, MainThread, key, value)
       IN /\ ht' = Members(R)
          /\ live' = IF R.status = "ok" /\ R.result THEN live \cup {<<key, value>>} ELSE live
          /\ ht_ret' = HTCall("Insert", MainThread, key, value, R, R.result)
          /\ UNCHANGED calls

\* Remove(key, value) by a single caller.
Remove(key, value) ==
    /\ Usable(ht)
    /\ LET R == RemoveRun(ht, MainThread, key, value)
       IN /\ ht' = Members(R)
          /\ live' = live \ {<<key, value>>}
          /\ ht_ret' = HTCall("Remove", MainThread, key, value, R, R.result)
          /\ UNCHANGED calls

\* GetValue(key) by a single caller; RLock waits while a writer is entered.
GetValue(key) ==
    /\ Usable(ht)
    /\ ~ht.writer_entered
    /\ ht_ret' = HTCall("GetValue", MainThread, key, 0, ht, GetValueRun(ht, key) # <<>>)
    /\ UNCHANGED <<ht, live, calls>>

\* Resize(initial_size) called directly with a larger size.
Resize(initial_size) ==
    /\ Usable(ht)
    /\ initial_size > ht.size
    /\ LET R == ResizeRun(ht, MainThread, initial_size)
       IN /\ ht' = Members(R)
          /\ ht_ret' = HTCall("Resize", MainThread, initial_size, 0, R, FALSE)
          /\ UNCHANGED <<live, calls>>

\* ------------------------------------------- the table's pages in the pool
\* The table runs on a buffer pool that keeps the contract of FetchPage and
\* NewPage and has a frame for each of the table's pages, so that no page of
\* the table is evicted: what the pool keeps of a page is its pin count and
\* its dirty bit.
TablePages == 0 .. MaxBlocks

NoPages ==
    [pin_count |-> [p \in TablePages |-> 0], is_dirty |-> [p \in TablePages |-> FALSE],
     before |-> [p \in TablePages |-> 0], calls |-> 0]

\* One call of the pool on the pages P: FetchPage pins, NewPage hands out the
\* page pinned once and clean, UnpinPage is UnpinPageImpl on a resident page.
PoolApply(P, c) ==
    IF c.page_id \notin TablePages
    THEN P
    ELSE IF c.call = "FetchPage"
    THEN [P EXCEPT !.pin_count[c.page_id] = @ + 1]
    ELSE IF c.call = "NewPage"
    THEN [P EXCEPT !.pin_count[c.page_id] = 1, !.is_dirty[c.page_id] = FALSE]
    ELSE IF P.pin_count[c.page_id] <= 0
    THEN P
    ELSE [P EXCEPT !.pin_count[c.page_id] = @ - 1, !.is_dirty[c.page_id] = c.is_dirty]

\* The pool calls of one call of the table, in the order they were made.
RECURSIVE PoolReplay(_, _, _)
PoolReplay(P, made, i) ==
    IF i > Len(made) THEN P ELSE PoolReplay(PoolApply(P, made[i]), made, i + 1)

\* The pages after a call of the table that made the pool calls `made`.
AfterCall(made) ==
    PoolReplay([hp EXCEPT !.before = hp.pin_count, !.calls = @ + 1], made, 1)

\* ======================================================= ReaderWriterLatch
\* Every method runs under mutex_, which a thread gives up only inside a
\* condition variable's wait: the statements between two waits are one step.
\* A wait returns after a notify or spuriously, and the loop around it tests
\* its condition again, so a waiting thread goes on exactly when it runs while
\* the condition is false.
RWThreads == {1, 2, 3}

\* MAX_READERS, UINT_MAX in the source, scaled below the number of threads so
\* that a reader meets the full count.
MAX_READERS == 2

\* The latch after construction, no thread inside a call.
FirstLatch ==
    [writer_entered |-> FALSE, reader_count |-> 0, thr |-> [t \in RWThreads |-> "idle"]]

\* RLock, line 69 negated with the writer test left out.
RLockPasses_IgnoreWriter(L) == L.reader_count # MAX_READERS

\* RLock, line 69: the loop is left when no writer has entered and the reader
\* count is below its maximum.
RLockPasses(L) == ~(L.writer_entered \/ L.reader_count = MAX_READERS)

\* WLock, line 43: the first loop is left when no writer has entered.
WriterLeft(L) == ~L.writer_entered

\* WLock, line 48: the second loop is left when no reader is counted.
ReadersLeft(L) == ~(L.reader_count > 0)

\* The thread's place in the latch.
At(L, t, pc) == [L EXCEPT !.thr[t] = pc]

\* WLock, lines 46-50: writer_entered_ = true, then the wait for the readers.
WriterEnters(L, t) ==
    LET E == [L EXCEPT !.writer_entered = TRUE]
    IN At(E, t, IF ReadersLeft(E) THEN "writing" ELSE "wait_readers")

\* RLock, line 72: reader_count_++ (uint32_t).
ReaderEnters(L, t) == At([L EXCEPT !.reader_count = (@ + 1) % (MAX_READERS + 1)], t, "reading")

\* ============================================================= LogManager
\* The statements a thread runs between taking latch_ and releasing it or
\* waiting are one step; what a thread does with the latch released is a step
\* of its own. Only ForceFlush waits with the latch taken: lm.latch names it
\* while it does, and every step that takes the latch needs it free. A buffer
\* is the sequence of the records in its bytes [0, offset_).
LogThreads == {1, 2}

\* Sizes of the records the appenders write: a BEGIN and a NEWPAGE record.
RecordSizes == {20, 24}

\* The future of a default-constructed std::shared_future: not valid.
NoFuture == 0

\* LogManager after construction and RunFlushThread: empty buffers, the flush
\* thread in its first wait_for, no appender inside AppendLogRecord.
FirstLog ==
    [log_buffer |-> <<>>, flush_buffer |-> <<>>, offset |-> 0, next_lsn |-> 0,
     flush_future |-> NoFuture, fulfilled |-> 0,
     flusher |-> [pc |-> "wait", last_lsn |-> INVALID_LSN, flush_size |-> 0],
     thr |-> [t \in LogThreads |-> [pc |-> "idle", size |-> 0, fut |-> NoFuture,
                                    lsn |-> INVALID_LSN, waited |-> FALSE]],
     placed |-> <<>>, written |-> <<>>, overflow |-> FALSE, latch |-> NoLatch]

\* AppendLogRecord with next_lsn_ read and not advanced.
AssignLsn_NoIncrement(L, t) == [L EXCEPT !.thr[t].lsn = L.next_lsn]

\* AppendLogRecord, line 111: log_record->lsn_ = next_lsn_++.
AssignLsn(L, t) == [L EXCEPT !.thr[t].lsn = L.next_lsn, !.next_lsn = @ + 1]

\* AppendLogRecord, lines 112-155: the record is copied to log_buffer_ +
\* offset_ and offset_ advances. Nothing tests that the record fits: a thread
\* that resumes after its wait writes past the end of a buffer another thread
\* has filled meanwhile (overflow). The bytes behind the end of the buffer are
\* not the buffer's: what the flush thread later finds there is the record
\* (kept) or something else, a record with no LSN of the log.
PlaceRecord(L, t, kept) ==
    [L EXCEPT !.log_buffer = Append(@, [lsn |-> IF kept THEN L.thr[t].lsn ELSE INVALID_LSN,
                                        size |-> L.thr[t].size]),
              !.placed = Append(@, L.thr[t].lsn),
              !.offset = @ + L.thr[t].size,
              !.overflow = @ \/ (L.offset + L.thr[t].size > LOG_BUFFER_SIZE)]

\* AppendLogRecord, line 156 and the unique_lock's destructor.
ReturnLsn(L, t) == [L EXCEPT !.thr[t].pc = "idle"]

\* AppendLogRecord, lines 111-156.
AppendLocked(L, t, kept) == ReturnLsn(PlaceRecord(AssignLsn(L, t), t, kept), t)

\* AppendLogRecord, lines 99-103 and, when the record fits, to the return.
AppendLogRecord(t, size) ==
    /\ lm.thr[t].pc = "idle"
    /\ lm.latch = NoLatch
    /\ lm.next_lsn < MaxLsn
    /\ lm' = IF lm.offset + size >= LOG_BUFFER_SIZE
             THEN [lm EXCEPT !.thr[t] = [pc |-> "unlocked", size |-> size, fut |-> NoFuture,
                                         lsn |-> INVALID_LSN, waited |-> TRUE]]
             ELSE AppendLocked([lm EXCEPT !.thr[t] = [pc |-> "locked", size |-> size, fut |-> NoFuture,
                                                      lsn |-> INVALID_LSN, waited |-> FALSE]], t, TRUE)
    /\ UNCHANGED persistent_lsn

\* AppendLogRecord, line 105: fut = flush_future_, read with the latch released.
AppendReadFuture(t) ==
    /\ lm.thr[t].pc = "unlocked"
    /\ lm' = [lm EXCEPT !.thr[t].pc = "waiting", !.thr[t].fut = lm.flush_future]
    /\ UNCHANGED persistent_lsn

\* AppendLogRecord, lines 106-156: the future is not valid or is fulfilled, the
\* latch is taken again and the record is placed.
AppendResume(t) ==
    /\ lm.thr[t].pc = "waiting"
    /\ lm.thr[t].fut = NoFuture \/ lm.thr[t].fut <= lm.fulfilled
    /\ lm.latch = NoLatch
    /\ \E kept \in BOOLEAN :
        /\ kept \/ lm.offset + lm.thr[t].size > LOG_BUFFER_SIZE
        /\ lm' = AppendLocked(lm, t, kept)
    /\ UNCHANGED persistent_lsn

\* SwapBuffer
SwapBuffer(L) ==
    [L EXCEPT !.flusher.flush_size = L.offset, !.log_buffer = <<>>,
              !.flush_buffer = L.log_buffer, !.offset = 0]

\* The flush thread with a wait that returns on notify_one only, not on the
\* timeout.
FlushSwap_NoTimeout ==
    /\ lm.flusher.pc = "wait"
    /\ lm.latch = NoLatch
    /\ \E t \in LogThreads : lm.thr[t].pc \in {"unlocked", "waiting", "forcing"}
    /\ lm.flush_future < MaxFlushes \/ lm.offset > 0
    /\ lm' = SwapBuffer([lm EXCEPT !.flusher.pc = "write", !.flusher.last_lsn = lm.next_lsn - 1,
                                   !.flush_future = @ + 1])
    /\ UNCHANGED persistent_lsn

\* The flush thread, lines 27-33: woken by the timeout or a notify, it notes
\* next_lsn_ - 1, publishes a fresh future and swaps the buffers.
FlushSwap ==
    /\ lm.flusher.pc = "wait"
    /\ lm.latch = NoLatch
    /\ lm.flush_future < MaxFlushes \/ lm.offset > 0
    /\ lm' = SwapBuffer([lm EXCEPT !.flusher.pc = "write", !.flusher.last_lsn = lm.next_lsn - 1,
                                   !.flush_future = @ + 1])
    /\ UNCHANGED persistent_lsn

\* The flush thread, line 34: WriteLog(flush_buffer_, flush_size).
FlushWrite ==
    /\ lm.flusher.pc = "write"
    /\ lm' = [lm EXCEPT !.flusher.pc = "written", !.written = @ \o lm.flush_buffer]
    /\ UNCHANGED persistent_lsn

\* The flush thread, lines 35-37: SetPersistentLSN(last_lsn), prom.set_value().
FlushDone ==
    /\ lm.flusher.pc = "written"
    /\ lm.latch = NoLatch
    /\ persistent_lsn' = lm.flusher.last_lsn
    /\ lm' = [lm EXCEPT !.flusher.pc = "wait", !.fulfilled = lm.flush_future]

\* ForceFlush, lines 64-66: the latch, notify_one, fut = flush_future_. The
\* thread notes the LSN of the last record appended before the call.
ForceFlush(t) ==
    /\ lm.thr[t].pc = "idle"
    /\ lm.latch = NoLatch
    /\ lm' = [lm EXCEPT !.latch = t,
                        !.thr[t] = [pc |-> "forcing", size |-> 0, fut |-> lm.flush_future,
                                    lsn |-> lm.next_lsn - 1, waited |-> FALSE]]
    /\ UNCHANGED persistent_lsn

\* ForceFlush, lines 67-69: the future is not valid or is fulfilled; the call
\* returns and its unique_lock releases the latch.
ForceReturn(t) ==
    /\ lm.thr[t].pc = "forcing"
    /\ lm.thr[t].fut = NoFuture \/ lm.thr[t].fut <= lm.fulfilled
    /\ lm' = [lm EXCEPT !.latch = NoLatch,
                        !.thr[t] = [pc |-> "idle", size |-> 0, fut |-> NoFuture,
                                    lsn |-> INVALID_LSN, waited |-> FALSE]]
    /\ UNCHANGED persistent_lsn

\* ============================================================== LogRecord
\* A buffer is a sequence of bytes, addressed from 0 as the code's char*.
ByteAt(buf, off) == IF off < Len(buf) THEN buf[off + 1] ELSE 0

\* memcpy(buf + off, bytes, Len(bytes))
MemCpy(buf, off, bytes) ==
    [i \in 1 .. Len(buf) |-> IF i > off /\ i <= off + Len(bytes) THEN bytes[i - off] ELSE buf[i]]

LowBytes(u) == <<u % 256, (u \div 256) % 256, (u \div 65536) % 256>>

\* The four bytes of an int32_t, little-endian two's complement.
Int32Bytes(n) ==
    IF n >= 0
    THEN LowBytes(n) \o <<n \div 16777216>>
    ELSE LowBytes((n + 2147483647) + 1) \o <<(((n + 2147483647) + 1) \div 16777216) + 128>>

\* *(int32_t *)(buf + off)
ReadInt32(buf, off) ==
    IF ByteAt(buf, off + 3) < 128
    THEN ByteAt(buf, off) + ByteAt(buf, off + 1) * 256 + ByteAt(buf, off + 2) * 65536
         + ByteAt(buf, off + 3) * 16777216
    ELSE ((ByteAt(buf, off) + ByteAt(buf, off + 1) * 256 + ByteAt(buf, off + 2) * 65536
           + (ByteAt(buf, off + 3) - 128) * 16777216) - 2147483647) - 1

HEADER_SIZE == 20
SizeOfRID == 8
SizeOfInt32 == 4

LogRecordTypes ==
    {"INSERT", "MARKDELETE", "APPLYDELETE", "ROLLBACKDELETE", "UPDATE", "BEGIN", "COMMIT", "ABORT", "NEWPAGE"}

DeleteTypes == {"MARKDELETE", "APPLYDELETE", "ROLLBACKDELETE"}

\* enum class LogRecordType, INVALID = 0 first.
TypeTag(type) ==
    CASE type = "INSERT" -> 1 [] type = "MARKDELETE" -> 2 [] type = "APPLYDELETE" -> 3
      [] type = "ROLLBACKDELETE" -> 4 [] type = "UPDATE" -> 5 [] type = "BEGIN" -> 6
      [] type = "COMMIT" -> 7 [] type = "ABORT" -> 8 [] type = "NEWPAGE" -> 9
      [] OTHER -> 0

TagType(tag) ==
    IF \E type \in LogRecordTypes : TypeTag(type) = tag
    THEN CHOOSE type \in LogRecordTypes : TypeTag(type) = tag
    ELSE "INVALID"

\* A default-constructed RID and Tuple.
NoRID == [page_id |-> INVALID_PAGE_ID, slot_num |-> 0]
NoTuple == <<>>

\* A default-constructed LogRecord.
NoRecord ==
    [size |-> 0, lsn |-> INVALID_LSN, txn_id |-> -1, prev_lsn |-> INVALID_LSN, type |-> "INVALID",
     rid |-> NoRID, tuple |-> NoTuple, old_tuple |-> NoTuple, new_tuple |-> NoTuple,
     prev_page_id |-> INVALID_PAGE_ID]

\* Tuple::GetLength
GetLength(tuple) == Len(tuple)

\* What the constructors of LogRecord store in size_.
GetSize(type, tuple, old_tuple, new_tuple) ==
    IF type = "INSERT" \/ type \in DeleteTypes
    THEN HEADER_SIZE + SizeOfRID + SizeOfInt32 + GetLength(tuple)
    ELSE IF type = "UPDATE"
    THEN HEADER_SIZE + SizeOfRID + GetLength(old_tuple) + GetLength(new_tuple) + 2 * SizeOfInt32
    ELSE IF type = "NEWPAGE"
    THEN HEADER_SIZE + SizeOfInt32
    ELSE HEADER_SIZE

\* The LogRecord constructors: the record of a type with its header and payload.
LogRecord(type, txn_id, prev_lsn, rid, tuple, old_tuple, new_tuple, prev_page_id) ==
    [size |-> GetSize(type, tuple, old_tuple, new_tuple), lsn |-> INVALID_LSN, txn_id |-> txn_id,
     prev_lsn |-> prev_lsn, type |-> type, rid |-> rid, tuple |-> tuple, old_tuple |-> old_tuple,
     new_tuple |-> new_tuple, prev_page_id |-> prev_page_id]

TxnIds == {0, 1}
PrevLsns == {INVALID_LSN, 0}
RIDs == [page_id : {0, 1}, slot_num : {0, 1}]
TupleBytes == {1, 2}
Tuples == UNION {[1 .. n -> TupleBytes] : n \in 0 .. MaxTupleLen}

Records ==
    {LogRecord(type, txn_id, prev_lsn, NoRID, NoTuple, NoTuple, NoTuple, INVALID_PAGE_ID) :
        type \in {"BEGIN", "COMMIT", "ABORT"}, txn_id \in TxnIds, prev_lsn \in PrevLsns}
    \cup {LogRecord(type, txn_id, prev_lsn, rid, tuple, NoTuple, NoTuple, INVALID_PAGE_ID) :
        type \in {"INSERT"} \cup DeleteTypes, txn_id \in TxnIds, prev_lsn \in PrevLsns,
        rid \in RIDs, tuple \in Tuples}
    \cup {LogRecord("UPDATE", txn_id, prev_lsn, rid, NoTuple, old_tuple, new_tuple, INVALID_PAGE_ID) :
        txn_id \in TxnIds, prev_lsn \in PrevLsns, rid \in RIDs, old_tuple \in Tuples, new_tuple \in Tuples}
    \cup {LogRecord("NEWPAGE", txn_id, prev_lsn, NoRID, NoTuple, NoTuple, NoTuple, prev_page_id) :
        txn_id \in TxnIds, prev_lsn \in PrevLsns, prev_page_id \in {INVALID_PAGE_ID, 0}}

\* The first HEADER_SIZE bytes of a LogRecord object.
HeaderBytes(r) ==
    Int32Bytes(r.size) \o Int32Bytes(r.lsn) \o Int32Bytes(r.txn_id) \o Int32Bytes(r.prev_lsn)
    \o Int32Bytes(TypeTag(r.type))

\* The eight bytes of a RID object.
RIDBytes(rid) == Int32Bytes(rid.page_id) \o Int32Bytes(rid.slot_num)

\* Tuple::SerializeTo: the length, then the bytes.
SerializeTo(tuple) == Int32Bytes(GetLength(tuple)) \o tuple

\* Tuple::DeserializeFrom: the length, then that many bytes. A length that
\* leads beyond the buffer is a read of memory the buffer does not hold.
DeserializeFrom(buf, off) ==
    IF ReadInt32(buf, off) < 0 \/ off + SizeOfInt32 + ReadInt32(buf, off) > Len(buf)
    THEN [inside |-> FALSE, tuple |-> NoTuple]
    ELSE [inside |-> TRUE, tuple |-> [i \in 1 .. ReadInt32(buf, off) |-> ByteAt(buf, off + SizeOfInt32 + i - 1)]]

\* AppendLogRecord, lines 116-154: the payload written at pos.
PayloadBytes(r) ==
    IF r.type = "INSERT" \/ r.type \in DeleteTypes
    THEN RIDBytes(r.rid) \o SerializeTo(r.tuple)
    ELSE IF r.type = "UPDATE"
    THEN RIDBytes(r.rid) \o SerializeTo(r.old_tuple) \o SerializeTo(r.new_tuple)
    ELSE IF r.type = "NEWPAGE"
    THEN Int32Bytes(r.prev_page_id)
    ELSE <<>>

\* AppendLogRecord, lines 112-154: header and payload copied to buf + offset.
WriteRecord(buf, offset, r) == MemCpy(buf, offset, HeaderBytes(r) \o PayloadBytes(r))

\* DeserializeLogRecord, lines 36-40: the header fields after size_.
ReadHeader(buf, offset) ==
    [NoRecord EXCEPT !.size = ReadInt32(buf, offset), !.lsn = ReadInt32(buf, offset + 4),
                     !.txn_id = ReadInt32(buf, offset + 8), !.prev_lsn = ReadInt32(buf, offset + 12),
                     !.type = TagType(ReadInt32(buf, offset + 16))]

ReadRID(buf, off) == [page_id |-> ReadInt32(buf, off), slot_num |-> ReadInt32(buf, off + 4)]

\* DeserializeLogRecord, lines 64-67: update_rid_, old_tuple_, then new_tuple_
\* read GetLength() bytes behind the start of old_tuple_.
ReadUpdate(buf, pos, h, old) ==
    [ok |-> TRUE,
     inside |-> old.inside /\ DeserializeFrom(buf, pos + SizeOfRID + GetLength(old.tuple)).inside,
     rec |-> [h EXCEPT !.rid = ReadRID(buf, pos), !.old_tuple = old.tuple,
                       !.new_tuple = DeserializeFrom(buf, pos + SizeOfRID + GetLength(old.tuple)).tuple]]

\* DeserializeLogRecord, lines 43-79: the payload at pos by type.
ReadPayload(buf, pos, h) ==
    IF h.type = "INSERT" \/ h.type \in DeleteTypes
    THEN [ok |-> TRUE, inside |-> DeserializeFrom(buf, pos + SizeOfRID).inside,
          rec |-> [h EXCEPT !.rid = ReadRID(buf, pos), !.tuple = DeserializeFrom(buf, pos + SizeOfRID).tuple]]
    ELSE IF h.type = "UPDATE"
    THEN ReadUpdate(buf, pos, h, DeserializeFrom(buf, pos + SizeOfRID))
    ELSE IF h.type = "NEWPAGE"
    THEN [ok |-> TRUE, inside |-> TRUE, rec |-> [h EXCEPT !.prev_page_id = ReadInt32(buf, pos)]]
    ELSE [ok |-> TRUE, inside |-> TRUE, rec |-> h]

\* LogRecovery::DeserializeLogRecord
DeserializeLogRecord(buf, offset) ==
    IF offset + HEADER_SIZE > LOG_BUFFER_SIZE
    THEN [ok |-> FALSE, inside |-> TRUE, rec |-> NoRecord]
    ELSE IF ReadInt32(buf, offset) <= 0 \/ offset + ReadInt32(buf, offset) > LOG_BUFFER_SIZE
    THEN [ok |-> FALSE, inside |-> TRUE, rec |-> [NoRecord EXCEPT !.size = ReadInt32(buf, offset)]]
    ELSE ReadPayload(buf, offset + HEADER_SIZE, ReadHeader(buf, offset))

\* No record is on its way through a log buffer.
NoWire == [stage |-> "none", rec |-> NoRecord, next_lsn |-> 0, buf |-> <<>>,
           out |-> [ok |-> FALSE, inside |-> TRUE, rec |-> NoRecord]]

\* A record as its constructor made it, an empty log buffer, next_lsn_.
WireInit ==
    \E r \in Records, n \in 0 .. 1 :
        wire = [NoWire EXCEPT !.stage = "made", !.rec = r, !.next_lsn = n,
                              !.buf = [i \in 1 .. LOG_BUFFER_SIZE |-> 0]]

\* AppendLogRecord on the empty buffer: the LSN is assigned and the record
\* written at offset_ = 0.
AppendRecord ==
    /\ wire.stage = "made"
    /\ wire' = [wire EXCEPT !.stage = "appended", !.rec.lsn = wire.next_lsn, !.next_lsn = @ + 1,
                            !.buf = WriteRecord(@, 0, [wire.rec EXCEPT !.lsn = wire.next_lsn])]

\* DeserializeLogRecord on the buffer AppendLogRecord wrote, offset_ = 0.
ReadRecord ==
    /\ wire.stage = "appended"
    /\ wire' = [wire EXCEPT !.stage = "read", !.out = DeserializeLogRecord(wire.buf, 0)]

\* ============================================================ LogRecovery
\* Recovery is modelled on a buffer pool that honours the contract of FetchPage,
\* NewPage and UnpinPage, so that a fetched table page is the page of that id
\* with the bytes last written to it. A table page is its page_lsn, its links
\* and its slots; a slot with an empty tuple is free.
NoSlot == [tuple |-> NoTuple, deleted |-> FALSE]

\* Page::ResetMemory and TablePage::Init(page_id, PAGE_SIZE, prev_page_id) with
\* logging disabled: zeroed bytes (page_lsn 0), the links, no tuple.
TablePageInit(prev_page_id) ==
    [lsn |-> 0, prev_page_id |-> prev_page_id, next_page_id |-> INVALID_PAGE_ID, slots |-> <<>>]

FreeSlots(page) == {i \in 1 .. Len(page.slots) : page.slots[i].tuple = NoTuple}

\* The slot InsertTuple takes: the first free one, else one more.
InsertSlot(page) ==
    IF FreeSlots(page) = {}
    THEN Len(page.slots) + 1
    ELSE CHOOSE i \in FreeSlots(page) : \A j \in FreeSlots(page) : i <= j

\* TablePage::InsertTuple with no transaction and no log manager: the tuple
\* goes to the slot the page picks; the page_lsn is left as it is.
InsertTuple(page, tuple) ==
    IF InsertSlot(page) > Len(page.slots)
    THEN [page EXCEPT !.slots = Append(@, [tuple |-> tuple, deleted |-> FALSE])]
    ELSE [page EXCEPT !.slots[InsertSlot(page)] = [tuple |-> tuple, deleted |-> FALSE]]

HasSlot(page, rid) == rid.slot_num >= 0 /\ rid.slot_num < Len(page.slots)

\* TablePage::ApplyDelete: the slot of rid becomes free.
ApplyDelete(page, rid) ==
    IF HasSlot(page, rid) THEN [page EXCEPT !.slots[rid.slot_num + 1] = NoSlot] ELSE page

\* TablePage::MarkDelete
MarkDelete(page, rid) ==
    IF HasSlot(page, rid) /\ page.slots[rid.slot_num + 1].tuple # NoTuple
    THEN [page EXCEPT !.slots[rid.slot_num + 1].deleted = TRUE]
    ELSE page

\* TablePage::RollbackDelete
RollbackDelete(page, rid) ==
    IF HasSlot(page, rid) THEN [page EXCEPT !.slots[rid.slot_num + 1].deleted = FALSE] ELSE page

\* TablePage::UpdateTuple
UpdateTuple(page, new_tuple, rid) ==
    IF HasSlot(page, rid) /\ page.slots[rid.slot_num + 1].tuple # NoTuple
       /\ ~page.slots[rid.slot_num + 1].deleted
    THEN [page EXCEPT !.slots[rid.slot_num + 1].tuple = new_tuple]
    ELSE page

\* ---------------------------------------------- the run before the crash
\* One transaction (id 0) on the table page 0: BEGIN, a NEWPAGE record, an
\* INSERT per tuple, COMMIT when it committed. The NEWPAGE record is the one of
\* page 0 when the table was created with logging enabled (prev_page_id
\* INVALID), or the one of the page the table heap added behind page 0
\* (prev_page_id 0). The log stream holds all of them; the disk holds page 0 as
\* it was after the first `flushed` inserts, with or without the link to the
\* page added behind it.
RecoveryTxn == 0
TablePageId == 0
InsertedTuples == Tuples \ {NoTuple}

Scenarios ==
    {[new_page |-> np, tuples |-> ts, commit |-> c, flushed |-> k, ndebug |-> nd,
      prev |-> pv, linked |-> ln] :
        np \in BOOLEAN, c \in BOOLEAN, nd \in BOOLEAN,
        pv \in {INVALID_PAGE_ID, TablePageId}, ln \in BOOLEAN,
        ts \in UNION {[1 .. n -> InsertedTuples] : n \in 1 .. MaxInserts}, k \in 0 .. MaxInserts}

\* LSN of the i-th INSERT: behind BEGIN (0) and NEWPAGE (1).
InsertLsn(s, i) == (IF s.new_page THEN 1 ELSE 0) + i

InsertRID(i) == [page_id |-> TablePageId, slot_num |-> i - 1]

WithLsn(r, lsn) == [r EXCEPT !.lsn = lsn]

\* The records of the run in the order AppendLogRecord placed them.
LogRecords(s) ==
    <<WithLsn(LogRecord("BEGIN", RecoveryTxn, INVALID_LSN, NoRID, NoTuple, NoTuple, NoTuple, INVALID_PAGE_ID), 0)>>
    \o (IF s.new_page
        THEN <<WithLsn(LogRecord("NEWPAGE", RecoveryTxn, 0, NoRID, NoTuple, NoTuple, NoTuple, s.prev), 1)>>
        ELSE <<>>)
    \o [i \in 1 .. Len(s.tuples) |->
          WithLsn(LogRecord("INSERT", RecoveryTxn, InsertLsn(s, i) - 1, InsertRID(i), s.tuples[i],
                            NoTuple, NoTuple, INVALID_PAGE_ID), InsertLsn(s, i))]
    \o (IF s.commit
        THEN <<WithLsn(LogRecord("COMMIT", RecoveryTxn, InsertLsn(s, Len(s.tuples)), NoRID, NoTuple, NoTuple,
                                 NoTuple, INVALID_PAGE_ID), InsertLsn(s, Len(s.tuples)) + 1)>>
        ELSE <<>>)

\* The log stream WriteLog appended: the records' bytes one behind the other.
RECURSIVE LogBytes(_, _)
LogBytes(records, i) ==
    IF i > Len(records)
    THEN <<>>
    ELSE HeaderBytes(records[i]) \o PayloadBytes(records[i]) \o LogBytes(records, i + 1)

\* Page 0 on disk after the first k inserts of the run: InsertTuple with
\* logging enabled sets the page_lsn to the LSN of its INSERT record, and the
\* page a NEWPAGE record is written for gets that record's LSN.
PageAtCrash(s, k) ==
    [lsn |-> IF k = 0
             THEN (IF s.new_page /\ s.prev = INVALID_PAGE_ID THEN 1 ELSE 0)
             ELSE InsertLsn(s, k),
     prev_page_id |-> INVALID_PAGE_ID,
     next_page_id |-> IF s.linked THEN TablePageId + 1 ELSE INVALID_PAGE_ID,
     slots |-> [i \in 1 .. k |-> [tuple |-> s.tuples[i], deleted |-> FALSE]]]

\* No recovery is under way.
NoRecovery ==
    [stage |-> "none", scn |-> [new_page |-> FALSE, tuples |-> <<>>, commit |-> FALSE, flushed |-> 0, ndebug |-> FALSE,
             prev |-> INVALID_PAGE_ID, linked |-> FALSE],
     log |-> <<>>, table |-> <<>>, next_page_id |-> 0, active_txn |-> <<>>, lsn_mapping |-> <<>>,
     offset_ |-> 0, redos |-> 0, inverse |-> <<>>, visited |-> <<>>, status |-> "ok"]

\* The restarted process: the log stream and the disk of a run, a fresh disk
\* manager and pool.
Crashed(s) ==
    [NoRecovery EXCEPT !.stage = "crashed", !.scn = s, !.log = LogBytes(LogRecords(s), 1),
                       !.table = MapPut(<<>>, TablePageId, PageAtCrash(s, s.flushed))]

RecoveryInit ==
    \E s \in Scenarios :
        /\ s.flushed <= Len(s.tuples)
        /\ s.prev # INVALID_PAGE_ID => s.new_page
        /\ s.linked => s.prev # INVALID_PAGE_ID
        /\ rv = Crashed(s)

\* ------------------------------------------------------------------ Redo
\* DiskManager::ReadLog: false at the end of the stream, else size bytes from
\* the offset, zero-filled behind the end.
ReadLog(log, offset) ==
    [ok |-> offset < Len(log), buf |-> [i \in 1 .. LOG_BUFFER_SIZE |-> ByteAt(log, offset + i - 1)]]

\* FetchPage of a page the disk does not hold gives no table page to work on.
Fetched(R, page_id) == page_id \in DOMAIN R.table

NoPage(R) == [R EXCEPT !.status = "wild"]

\* Redo, lines 116-155: the forward effect when the page_lsn is below the
\* record's LSN. Nothing stores the record's LSN in the page.
RedoTuple(R, rec, page_id, page) ==
    IF ~(page.lsn < rec.lsn)
    THEN R
    ELSE [R EXCEPT !.table[page_id] =
            IF rec.type = "INSERT" THEN InsertTuple(page, rec.tuple)
            ELSE IF rec.type = "UPDATE" THEN UpdateTuple(page, rec.new_tuple, rec.rid)
            ELSE IF rec.type = "MARKDELETE" THEN MarkDelete(page, rec.rid)
            ELSE IF rec.type = "APPLYDELETE" THEN ApplyDelete(page, rec.rid)
            ELSE RollbackDelete(page, rec.rid)]

\* Redo, lines 162-170: the link from the previous page; the assert of line
\* 168 fails when that page is linked to another page.
RedoLink(R, prev_page_id, new_page_id) ==
    IF prev_page_id = INVALID_PAGE_ID
    THEN R
    ELSE IF ~Fetched(R, prev_page_id)
    THEN NoPage(R)
    ELSE IF R.table[prev_page_id].next_page_id = INVALID_PAGE_ID
    THEN [R EXCEPT !.table[prev_page_id].next_page_id = new_page_id]
    ELSE IF R.scn.ndebug \/ R.table[prev_page_id].next_page_id = new_page_id
    THEN R
    ELSE [R EXCEPT !.status = "assert"]

\* Redo, lines 156-172: a page is allocated and initialised for every NEWPAGE
\* record read.
RedoNewPage(R, rec) ==
    RedoLink([R EXCEPT !.table = MapPut(@, R.next_page_id, TablePageInit(rec.prev_page_id)),
                       !.next_page_id = @ + 1],
             rec.prev_page_id, R.next_page_id)

\* Redo, lines 116-172
RedoApply(R, rec) ==
    IF rec.type \in {"INSERT", "UPDATE", "MARKDELETE", "APPLYDELETE", "ROLLBACKDELETE"}
    THEN IF Fetched(R, rec.rid.page_id)
         THEN RedoTuple(R, rec, rec.rid.page_id, R.table[rec.rid.page_id])
         ELSE NoPage(R)
    ELSE IF rec.type = "NEWPAGE"
    THEN RedoNewPage(R, rec)
    ELSE R

\* Redo, lines 105-114: lsn_mapping_, offset_, active_txn_.
RedoNote(R, rec) ==
    [R EXCEPT !.lsn_mapping = MapPut(@, rec.lsn, R.offset_),
              !.visited = Append(@, rec.lsn),
              !.offset_ = @ + rec.size,
              !.active_txn = IF rec.type \in {"COMMIT", "ABORT"}
                             THEN MapErase(@, rec.txn_id)
                             ELSE MapPut(@, rec.txn_id, rec.lsn)]

RECURSIVE RedoRecords(_, _)
RedoStep(R, buf, d) ==
    IF ~d.ok \/ R.status # "ok" THEN R ELSE RedoRecords(RedoApply(RedoNote(R, d.rec), d.rec), buf)

\* Redo, lines 102-173: the records DeserializeLogRecord finds in log_buffer_
\* from offset_ on.
RedoRecords(R, buf) == RedoStep(R, buf, DeserializeLogRecord(buf, R.offset_))

\* Redo, lines 97-174: the log stream read LOG_BUFFER_SIZE bytes at a time;
\* offset_ starts at the stream offset of the bytes read.
RECURSIVE RedoChunks(_, _)
RedoChunks(R, log_buffer_offset) ==
    IF ~ReadLog(R.log, log_buffer_offset).ok \/ R.status # "ok"
    THEN R
    ELSE RedoChunks(RedoRecords([R EXCEPT !.offset_ = log_buffer_offset],
                                ReadLog(R.log, log_buffer_offset).buf),
                    log_buffer_offset + LOG_BUFFER_SIZE)

\* LogRecovery::Redo
RedoRun(R) == RedoChunks([R EXCEPT !.active_txn = <<>>, !.lsn_mapping = <<>>, !.visited = <<>>], 0)

\* ------------------------------------------------------------------ Undo
\* Undo, lines 194-233: the inverse operation when the page_lsn is below the
\* record's LSN.
UndoTuple(R, rec, page_id, page) ==
    IF ~(page.lsn < rec.lsn)
    THEN R
    ELSE [R EXCEPT !.inverse = Append(@, rec.lsn),
                   !.table[page_id] =
            IF rec.type = "INSERT" THEN ApplyDelete(page, rec.rid)
            ELSE IF rec.type = "UPDATE" THEN UpdateTuple(page, rec.old_tuple, rec.rid)
            ELSE IF rec.type = "MARKDELETE" THEN RollbackDelete(page, rec.rid)
            ELSE IF rec.type = "APPLYDELETE" THEN InsertTuple(page, rec.tuple)
            ELSE MarkDelete(page, rec.rid)]

UndoApply(R, rec) ==
    IF rec.type \in {"INSERT", "UPDATE", "MARKDELETE", "APPLYDELETE", "ROLLBACKDELETE"}
    THEN IF Fetched(R, rec.rid.page_id)
         THEN UndoTuple(R, rec, rec.rid.page_id, R.table[rec.rid.page_id])
         ELSE NoPage(R)
    ELSE R

RECURSIVE UndoChain(_, _)
\* Undo, lines 235-238: the walk ends at a prev_lsn lsn_mapping_ does not hold.
UndoNext(R, rec) ==
    IF rec.prev_lsn \notin DOMAIN R.lsn_mapping \/ R.status # "ok"
    THEN R
    ELSE UndoChain(R, R.lsn_mapping[rec.prev_lsn])

\* Undo, lines 192-233: the record is read inside an assert; a build with
\* NDEBUG drops the call and works on the default-constructed record.
UndoRecord(R, d) ==
    IF R.scn.ndebug
    THEN UndoNext(UndoApply(R, NoRecord), NoRecord)
    ELSE IF ~d.ok
    THEN [R EXCEPT !.status = "assert"]
    ELSE UndoNext(UndoApply(R, d.rec), d.rec)

\* Undo, lines 190-239: the chain of one transaction from read_offset back,
\* each record parsed at offset_ = 0 of the bytes read there.
UndoChain(R, read_offset) ==
    IF ~ReadLog(R.log, read_offset).ok
    THEN R
    ELSE UndoRecord(R, DeserializeLogRecord(ReadLog(R.log, read_offset).buf, 0))

\* Undo, lines 186-240: every transaction of active_txn_.
RECURSIVE UndoTxns(_, _)
UndoTxns(R, txns) ==
    IF txns = {} \/ R.status # "ok"
    THEN R
    ELSE UndoTxns(UndoChain(R, R.lsn_mapping[R.active_txn[CHOOSE t \in txns : TRUE]]),
                  txns \ {CHOOSE t \in txns : TRUE})

\* LogRecovery::Undo
UndoRun(R) == [UndoTxns(R, DOMAIN R.active_txn) EXCEPT !.active_txn = <<>>, !.lsn_mapping = <<>>]

\* Redo() called on the restarted process, and again on what it left.
Redo ==
    /\ rv.stage \in {"crashed", "redone"}
    /\ rv.status = "ok"
    /\ rv.redos < MaxRedos
    /\ rv' = [RedoRun(rv) EXCEPT !.stage = "redone", !.redos = @ + 1]

\* Undo() called after Redo().
Undo ==
    /\ rv.stage = "redone"
    /\ rv.status = "ok"
    /\ rv' = [UndoRun(rv) EXCEPT !.stage = "undone"]

\* ================================================================ states
\* A table constructed with one block page of buckets that nobody calls.
TableIdle ==
    /\ ht = Constructed(SlotsPerPage)
    /\ live = {}
    /\ ht_ret = HTCall("Init", MainThread, 0, 0, FirstTable, FALSE)
    /\ calls = NoCalls

\* A log manager nobody appends to, no record on the wire.
LogIdle ==
    /\ lm = FirstLog
    /\ rw = FirstLatch
    /\ hp = NoPages
    /\ bp = PoolIdle
    /\ cr_ret = ReplacerCall("Init", NullFrame, FALSE)
    /\ rv = NoRecovery
    /\ wire = NoWire

\* The state after construction, before any log record is written; the buffer
\* pool's specifications leave the hash table as it was constructed.
Init ==
    /\ PoolInit
    /\ persistent_lsn = INVALID_LSN
    /\ TableIdle
    /\ LogIdle

\* The call of the step wrote the bytes of frame f to the disk store: the dirty
\* frame a miss of FetchPage or NewPage took, the dirty frame of FlushPage's
\* page, every dirty frame FlushAllPages finds through page_table_.
WritesFrame(f) ==
    \/ ret'.op \in {"FetchPage", "NewPage"} /\ ret'.frame = f /\ pages[f].is_dirty
    \/ ret'.op = "FlushPage" /\ ret'.frame = f
    \/ ret'.op = "FlushAllPages" /\ pages[f].is_dirty /\ f \in PageTableTargets

\* C12: write-ahead rule. Whenever the pool writes a page to disk (dirty
\* eviction in FetchPage/NewPage, FlushPage, FlushAllPages) with page_lsn = L,
\* persistent_lsn >= L holds at the moment of the write: the log is flushed
\* first when page_lsn > persistent_lsn.
C12_WriteAheadRule ==
    [][\A f \in Frames : WritesFrame(f) => persistent_lsn' >= GetLSN(pages[f])]_vars

Next ==
    \/ \E p \in PageIds : FetchPageImpl(p) /\ UNCHANGED outsidePool
    \/ \E p \in PageIds, d \in BOOLEAN : UnpinPageImpl(p, d) /\ UNCHANGED outsidePool
    \/ \E p \in PageIds \cup {INVALID_PAGE_ID} : FlushPageImpl(p) /\ UNCHANGED outsidePool
    \/ NewPageImpl /\ UNCHANGED outsidePool
    \/ \E p \in PageIds : DeletePageImpl(p) /\ UNCHANGED outsidePool
    \/ FlushAllPagesImpl /\ UNCHANGED outsidePool
    \/ \E f \in Frames, b \in Data : WriteData(f, b) /\ UNCHANGED outsidePool

Spec == Init /\ [][Next]_vars

\* Some caller holds page_id: a frame was given that page by FetchPage or NewPage
\* and has not been unpinned since.
HeldPinned(page_id) == \E f \in Frames : pages[f].page_id = page_id /\ pages[f].pin_count > 0

\* The pool under callers that pair every UnpinPage with an earlier FetchPage or
\* NewPage of the same page, as the hash table's operations do.
NextPaired ==
    \/ \E p \in PageIds : FetchPageImpl(p) /\ UNCHANGED outsidePool
    \/ \E p \in PageIds, d \in BOOLEAN : HeldPinned(p) /\ UnpinPageImpl(p, d) /\ UNCHANGED outsidePool
    \/ \E p \in PageIds \cup {INVALID_PAGE_ID} : FlushPageImpl(p) /\ UNCHANGED outsidePool
    \/ NewPageImpl /\ UNCHANGED outsidePool
    \/ \E p \in PageIds : DeletePageImpl(p) /\ UNCHANGED outsidePool
    \/ FlushAllPagesImpl /\ UNCHANGED outsidePool
    \/ \E f \in Frames, b \in Data : WriteData(f, b) /\ UNCHANGED outsidePool

SpecPaired == Init /\ [][NextPaired]_vars

\* The pool at a moment when the log manager has flushed up to some LSN: the
\* pool's operations under paired callers, persistent_lsn_ as the flush thread
\* left it.
InitWAL ==
    /\ PoolInit
    /\ persistent_lsn \in 0 .. MaxData
    /\ TableIdle
    /\ LogIdle

SpecWAL == InitWAL /\ [][NextPaired]_vars
\* ------------------------------------------------ the hash table's claims
\* What the hash table never touches in the model: the pool's own state and the
\* log manager.
outsideTable == <<pages, page_table, free_list, clock_set, cur_ptr, disk, next_page_id,
                  deallocated, ret, persistent_lsn, lm, wire, rv, cr_ret, bp, hp, rw>>

InitHT ==
    /\ PoolInit
    /\ persistent_lsn = INVALID_LSN
    /\ HTInit
    /\ lm = FirstLog
    /\ rw = FirstLatch
    /\ hp = NoPages
    /\ bp = PoolIdle
    /\ cr_ret = ReplacerCall("Init", NullFrame, FALSE)
    /\ rv = NoRecovery
    /\ wire = NoWire

NextHT ==
    \/ \E key \in Keys, value \in Values : Insert(key, value) /\ UNCHANGED outsideTable
    \/ \E key \in Keys, value \in Values : Remove(key, value) /\ UNCHANGED outsideTable
    \/ \E key \in Keys : GetValue(key) /\ UNCHANGED outsideTable
    \/ \E n \in 1 .. (MaxBlocks * SlotsPerPage) : Resize(n) /\ UNCHANGED outsideTable

\* The hash table called by one thread.
SpecHT == InitHT /\ [][NextHT]_vars

\* The values GetValue(key) returns on table T, as a set.
Found(T, key) == SeqRange(GetValueRun(T, key))

LiveValues(key) == {v \in Values : <<key, v>> \in live}

\* size_ never exceeds the slots of the header's block pages.
SizeWithinBlocks == ht.size <= Len(ht.slots)

\* C13: for any sequence of Insert and Remove (including sequences that trigger
\* Resize), GetValue(k) returns exactly the values v for which the last
\* operation on (k,v) was an Insert, each once, and the empty sequence for a
\* key with no live pair.
C13_GetValueReturnsLivePairs ==
    ht_ret.op = "GetValue"
       => LET result == GetValueRun(ht, ht_ret.key)
          IN /\ SeqRange(result) = LiveValues(ht_ret.key)
             /\ Len(result) = Cardinality(LiveValues(ht_ret.key))

\* No two readable slots of T hold the same (key, value).
NoDuplicate(T) ==
    \A i, j \in 1 .. Len(T.slots) :
       (i # j /\ T.slots[i].readable /\ T.slots[j].readable)
          => <<T.slots[i].key, T.slots[i].value>> # <<T.slots[j].key, T.slots[j].value>>

\* C14: the table never holds two readable slots with the same (key, value):
\* Insert(k,v) returns false and changes nothing whenever (k,v) is already live,
\* also when a slot earlier on the probe path of k was emptied by a Remove.
C14_NoDuplicatePairs ==
    [][/\ NoDuplicate(ht')
       /\ (ht_ret'.op = "Insert" /\ <<ht_ret'.key, ht_ret'.value>> \in ReadablePairs(ht))
             => (~ht_ret'.result /\ ht'.slots = ht.slots)]_vars

\* C15: Remove(k,v) returns true iff (k,v) is live when it is called; after a
\* true return GetValue(k) no longer contains v and every other live pair is
\* still returned by GetValue; a second Remove(k,v) returns false.
C15_RemoveContract ==
    [][(ht_ret'.op = "Remove" /\ ht_ret'.status = "ok")
          => /\ ht_ret'.result <=> (<<ht_ret'.key, ht_ret'.value>> \in live)
             /\ ht_ret'.result
                   => /\ ht_ret'.value \notin Found(ht', ht_ret'.key)
                      /\ \A pair \in live' : pair[2] \in Found(ht', pair[1])]_vars

\* C16: after any Resize to a larger size (called directly, or from an Insert
\* whose probe reached the end of the table, or nested in a rehash), every pair
\* that was live and retrievable before it, and the pair whose Insert
\* triggered it, is returned by GetValue of its key.
C16_ResizeKeepsPairs ==
    [][(/\ ht_ret'.resized
        /\ ht_ret'.status = "ok"
        /\ \A pair \in live : pair[2] \in Found(ht, pair[1]))
          => \A pair \in live' : pair[2] \in Found(ht', pair[1])]_vars

\* C18: if the table cannot grow during an Insert (the pool cannot supply a new
\* page during Resize), that Insert returns false, the set of live pairs is
\* unchanged, and the probe never addresses a block index beyond the block
\* pages recorded in the header.
C18_GrowFailure ==
    [][(ht_ret'.op = "Insert" /\ ht_ret'.grow_failed)
          => /\ ht_ret'.status # "wild"
             /\ ~ht_ret'.result
             /\ ReadablePairs(ht') = ReadablePairs(ht)]_vars
\* ------------------------------------------- the hash table, two threads
\* Threads insert pairwise disjoint keys with no lock of their own around the
\* calls. The statements of Insert a thread runs with the table latch taken
\* are one step; the statements in front of WLock's return and behind WUnlock
\* are steps of their own.
KeysPerThread == (MaxKey + 1) \div 2

ThreadKeys(t) == {key \in Keys : key \div KeysPerThread = t - 1}

\* Insert, line 87-88: the thread has the latch, or does not ask for it.
InsertCall(t, key) ==
    /\ Usable(ht)
    /\ calls[t].pc = "idle"
    /\ <<key, 0>> \notin live
    /\ TakesLatch(ht, t) => ~ht.writer_entered
    /\ ht' = IF TakesLatch(ht, t) THEN WLock(ht) ELSE ht
    /\ calls' = [calls EXCEPT ![t] = [pc |-> "entered", key |-> key, result |-> FALSE]]
    /\ UNCHANGED <<live, ht_ret>>

\* Insert, line 90: is_inserting_ = true.
InsertFlag(t) ==
    /\ Usable(ht)
    /\ calls[t].pc = "entered"
    /\ ht' = [ht EXCEPT !.is_inserting = TRUE]
    /\ calls' = [calls EXCEPT ![t].pc = "probing"]
    /\ UNCHANGED <<live, ht_ret>>

\* Insert, lines 91-151: the probe, the Resize calls it makes, the WUnlock.
InsertBody(t) ==
    /\ Usable(ht)
    /\ calls[t].pc = "probing"
    /\ LET R == InsertProbe(ht, t, calls[t].key, 0, GetHash(calls[t].key) % ht.size)
       IN /\ ht' = Members(R)
          /\ calls' = [calls EXCEPT ![t].pc = IF R.status = "ok" THEN "unlocked" ELSE R.status,
                                    ![t].result = R.result]
    /\ UNCHANGED <<live, ht_ret>>

\* Insert, lines 152-153: is_inserting_ = false, return.
InsertReturn(t) ==
    /\ Usable(ht)
    /\ calls[t].pc = "unlocked"
    /\ ht' = InsertLeave(ht)
    /\ live' = IF calls[t].result THEN live \cup {<<calls[t].key, 0>>} ELSE live
    /\ ht_ret' = HTCall("Insert", t, calls[t].key, 0, ht, calls[t].result)
    /\ calls' = [calls EXCEPT ![t].pc = "idle"]

NextHTConc ==
    \/ \E t \in HTThreads : \E key \in ThreadKeys(t) : InsertCall(t, key) /\ UNCHANGED outsideTable
    \/ \E t \in HTThreads : InsertFlag(t) /\ UNCHANGED outsideTable
    \/ \E t \in HTThreads : InsertBody(t) /\ UNCHANGED outsideTable
    \/ \E t \in HTThreads : InsertReturn(t) /\ UNCHANGED outsideTable

SpecHTConc == InitHT /\ [][NextHTConc]_vars

\* C17: threads that insert pairwise disjoint keys and rely on the table's own
\* latch only: every Insert returns, and returns true. (That no inserted pair
\* is lost is the second half of the claim; it fails already with one thread,
\* see C16.)
C17_ConcurrentInsertsSucceed ==
    /\ \A t \in HTThreads : calls[t].pc # "hang"
    /\ ht_ret.op = "Insert" => ht_ret.result

\* C31: the write latch of Insert, Remove and Resize is held from its WLock to
\* the return of the outermost call, an Insert that calls Resize included, and
\* is released exactly once: a call that returned made one WLock and one
\* WUnlock, and no statement of Insert's body ran with the latch released.
C31_WriteLatchHeldOnce ==
    (ht_ret.op \in {"Insert", "Remove", "Resize"} /\ ht_ret.status = "ok")
        => (ht_ret.wlocks = 1 /\ ht_ret.wunlocks = 1 /\ ~ht_ret.bare)

\* ------------------------------------------------ the log manager's claims
outsideLog == <<pages, page_table, free_list, clock_set, cur_ptr, disk, next_page_id,
                deallocated, ret, ht, live, ht_ret, calls, wire, rv, cr_ret, bp, hp, rw>>

InitLog ==
    /\ PoolInit
    /\ persistent_lsn = INVALID_LSN
    /\ TableIdle
    /\ LogIdle

NextLog ==
    \/ \E t \in LogThreads, size \in RecordSizes : AppendLogRecord(t, size) /\ UNCHANGED outsideLog
    \/ \E t \in LogThreads : AppendReadFuture(t) /\ UNCHANGED outsideLog
    \/ \E t \in LogThreads : AppendResume(t) /\ UNCHANGED outsideLog
    \/ FlushSwap /\ UNCHANGED outsideLog
    \/ FlushWrite /\ UNCHANGED outsideLog
    \/ FlushDone /\ UNCHANGED outsideLog

\* Appender threads and the flush thread on one log manager.
SpecLog == InitLog /\ [][NextLog]_vars

\* C19: under every interleaving of appenders and flush cycles, the LSNs of the
\* records are consecutive in the order the records are placed in the log
\* buffer: each is the one before it plus one, so none is shared or skipped.
C19_LsnsConsecutive ==
    \A i \in 1 .. (Len(lm.placed) - 1) : lm.placed[i + 1] = lm.placed[i] + 1

\* Both threads have placed records, one of them after it found the buffer
\* full and waited for a flush cycle that has completed.
C19_Witness ==
    /\ Len(lm.placed) >= 3
    /\ ~lm.overflow
    /\ lm.fulfilled >= 1
    /\ \A t \in LogThreads : lm.thr[t].pc = "idle" /\ lm.thr[t].lsn # INVALID_LSN
    /\ \E t \in LogThreads : lm.thr[t].waited /\ lm.thr[t].fut # NoFuture

\* C33: AppendLogRecord never serializes a record past the end of the log
\* buffer: in every reachable state 0 <= offset_ <= LOG_BUFFER_SIZE, also after
\* a caller that found the buffer full has resumed.
C33_OffsetWithinBuffer == 0 <= lm.offset /\ lm.offset <= LOG_BUFFER_SIZE /\ ~lm.overflow

\* C34: persistent_lsn never decreases; every record with an LSN up to
\* persistent_lsn has been handed to the log stream by WriteLog, and the
\* stream holds the records in contiguous, strictly increasing LSN order.
C34_PersistentLsnCoversStream ==
    [][/\ persistent_lsn' >= persistent_lsn
       /\ \A lsn \in 0 .. persistent_lsn' : \E i \in 1 .. Len(lm'.written) : lm'.written[i].lsn = lsn
       /\ \A i \in 1 .. (Len(lm'.written) - 1) : lm'.written[i + 1].lsn = lm'.written[i].lsn + 1]_vars

\* Appenders, callers of ForceFlush and the flush thread on one log manager.
NextForce ==
    \/ NextLog
    \/ \E t \in LogThreads : ForceFlush(t) /\ UNCHANGED outsideLog
    \/ \E t \in LogThreads : ForceReturn(t) /\ UNCHANGED outsideLog

SpecForce == InitLog /\ [][NextForce]_vars

\* C35: when ForceFlush returns, every record appended before the call has an
\* LSN up to persistent_lsn.
C35_ForceFlushPersists ==
    [][\A t \in LogThreads :
          (lm.thr[t].pc = "forcing" /\ lm'.thr[t].pc = "idle") => lm.thr[t].lsn <= persistent_lsn']_vars

\* A caller holds the log latch and waits for a future the flush thread
\* fulfils only after it has taken that latch again.
WaitsUnderLatch(t) ==
    /\ lm.thr[t].pc = "forcing"
    /\ lm.latch = t
    /\ lm.thr[t].fut # NoFuture
    /\ lm.thr[t].fut > lm.fulfilled

\* C36: no caller holds the log latch while it waits for a flush future whose
\* fulfilment needs the flush thread to take that latch, so that every
\* ForceFlush and AppendLogRecord returns.
C36_NoWaitUnderLatch == \A t \in LogThreads : ~WaitsUnderLatch(t)

\* The flush thread's loop: cv_.wait_for returns at the latest after
\* log_timeout, and the thread takes every step it can take.
FlushThread == (FlushSwap \/ FlushWrite \/ FlushDone) /\ UNCHANGED outsideLog

\* One appender and the flush thread.
TimeoutThreads == {1}

NextTimeout ==
    \/ \E t \in TimeoutThreads, size \in RecordSizes : AppendLogRecord(t, size) /\ UNCHANGED outsideLog
    \/ \E t \in TimeoutThreads : AppendReadFuture(t) /\ UNCHANGED outsideLog
    \/ \E t \in TimeoutThreads : AppendResume(t) /\ UNCHANGED outsideLog
    \/ FlushThread

SpecTimeout == InitLog /\ [][NextTimeout]_vars /\ WF_vars(FlushThread)

\* C37: while the flush thread runs, every record appended becomes persistent
\* with no further append and no ForceFlush: its LSN is at most persistent_lsn
\* from some point on.
C37_AppendedBecomesPersistent ==
    \A lsn \in 0 .. (MaxLsn - 1) : (lm.next_lsn > lsn) ~> (persistent_lsn >= lsn)

\* The last record the bounds allow is persistent, flushed from a buffer that
\* was not full.
C37_Witness ==
    /\ persistent_lsn = MaxLsn - 1
    /\ lm.flusher.pc = "wait"
    /\ lm.flusher.flush_size < LOG_BUFFER_SIZE - 24
    /\ lm.flusher.flush_size > 0

\* ------------------------------------------------- the log record's claims
outsideWire == <<pages, page_table, free_list, clock_set, cur_ptr, disk, next_page_id,
                 deallocated, ret, persistent_lsn, ht, live, ht_ret, calls, lm, rv, cr_ret, bp, hp, rw>>

InitRec ==
    /\ PoolInit
    /\ persistent_lsn = INVALID_LSN
    /\ TableIdle
    /\ lm = FirstLog
    /\ rw = FirstLatch
    /\ hp = NoPages
    /\ bp = PoolIdle
    /\ cr_ret = ReplacerCall("Init", NullFrame, FALSE)
    /\ rv = NoRecovery
    /\ WireInit

NextRec ==
    \/ AppendRecord /\ UNCHANGED outsideWire
    \/ ReadRecord /\ UNCHANGED outsideWire

\* One log record written by AppendLogRecord and read by DeserializeLogRecord.
SpecRec == InitRec /\ [][NextRec]_vars

\* C20: for a record r of any type, DeserializeLogRecord on the bytes
\* AppendLogRecord wrote for r succeeds and yields r: the same header fields,
\* the same rid, tuple, old and new tuple, prev_page_id. (A run in which the
\* read leaves the buffer is not counted against the claim.)
C20_RoundTrip ==
    (wire.stage = "read" /\ wire.out.inside) => (wire.out.ok /\ wire.out.rec = wire.rec)

\* --------------------------------------------------- recovery's claims
outsideRecovery == <<pages, page_table, free_list, clock_set, cur_ptr, disk, next_page_id,
                     deallocated, ret, persistent_lsn, ht, live, ht_ret, calls, lm, wire, cr_ret, bp, hp, rw>>

InitRecovery ==
    /\ PoolInit
    /\ persistent_lsn = INVALID_LSN
    /\ TableIdle
    /\ lm = FirstLog
    /\ rw = FirstLatch
    /\ hp = NoPages
    /\ bp = PoolIdle
    /\ cr_ret = ReplacerCall("Init", NullFrame, FALSE)
    /\ wire = NoWire
    /\ RecoveryInit

NextRecovery ==
    \/ Redo /\ UNCHANGED outsideRecovery
    \/ Undo /\ UNCHANGED outsideRecovery

\* Recovery after a crash: Redo, possibly Redo again, then Undo.
SpecRecovery == InitRecovery /\ [][NextRecovery]_vars

\* The tuples in the slots of the table's pages.
TuplesPresent(R) ==
    UNION {{R.table[p].slots[i].tuple : i \in 1 .. Len(R.table[p].slots)} : p \in DOMAIN R.table} \ {NoTuple}

\* C21: a second Redo on the same log leaves the table pages (tuples, links)
\* and the allocated pages as the first Redo left them.
C21_RedoIdempotent ==
    [][(rv.stage = "redone" /\ rv'.stage = "redone" /\ rv'.status = "ok")
        => (rv'.table = rv.table /\ rv'.next_page_id = rv.next_page_id)]_vars

\* Redo ran once on the restarted process and Undo after it, neither stopped.
Recovered ==
    /\ rv.stage = "undone"
    /\ rv.redos = 1
    /\ rv.status = "ok"

\* The transaction's i-th tuple is in the slot its INSERT record names.
TuplePresent(R, i) ==
    /\ TablePageId \in DOMAIN R.table
    /\ HasSlot(R.table[TablePageId], InsertRID(i))
    /\ R.table[TablePageId].slots[i] = [tuple |-> R.scn.tuples[i], deleted |-> FALSE]

\* C22: a transaction with BEGIN and INSERT records and no COMMIT or ABORT has
\* none of its tuples in the table after Redo and Undo, whatever part of its
\* inserts the page on disk held at the crash.
C22_LoserRolledBack ==
    (Recovered /\ ~rv.scn.commit) => TuplesPresent(rv) = {}

\* C23: a transaction with a COMMIT record has every tuple it inserted in the
\* table after Redo and Undo, and Undo applied no inverse operation.
C23_WinnerKept ==
    (Recovered /\ rv.scn.commit)
        => (rv.inverse = <<>> /\ \A i \in 1 .. Len(rv.scn.tuples) : TuplePresent(rv, i))

\* The byte offset in the log stream of the i-th record of the run.
RECURSIVE FileOffset(_, _)
FileOffset(records, i) == IF i <= 1 THEN 0 ELSE FileOffset(records, i - 1) + records[i - 1].size

\* C38: Redo visits every complete record of the log stream once, in file
\* order, also behind the first LOG_BUFFER_SIZE bytes and across a prefetch
\* boundary, and stores each record's byte offset in the file in lsn_mapping.
C38_RedoVisitsEveryRecord ==
    (rv.stage = "redone" /\ rv.status = "ok")
        => /\ rv.visited = [i \in 1 .. Len(LogRecords(rv.scn)) |-> LogRecords(rv.scn)[i].lsn]
           /\ \A i \in 1 .. Len(LogRecords(rv.scn)) :
                 /\ LogRecords(rv.scn)[i].lsn \in DOMAIN rv.lsn_mapping
                 /\ rv.lsn_mapping[LogRecords(rv.scn)[i].lsn] = FileOffset(LogRecords(rv.scn), i)

\* The record of the run with the given LSN.
RecordOf(R, lsn) == LogRecords(R.scn)[lsn + 1]

\* The LSNs of the data records on the prev_lsn chain from lsn down to the
\* record whose prev_lsn lsn_mapping does not hold.
RECURSIVE ChainFrom(_, _, _)
ChainFrom(R, lsn, seen) ==
    LET rec == RecordOf(R, lsn)
        next == IF rec.type \in {"INSERT", "UPDATE", "MARKDELETE", "APPLYDELETE", "ROLLBACKDELETE"}
                THEN Append(seen, lsn)
                ELSE seen
    IN IF rec.prev_lsn \in DOMAIN R.lsn_mapping THEN ChainFrom(R, rec.prev_lsn, next) ELSE next

\* What Undo has to invert, given what Redo left: the chain of the one
\* transaction of the run when active_txn holds it.
ToUndo(R) ==
    IF RecoveryTxn \in DOMAIN R.active_txn THEN ChainFrom(R, R.active_txn[RecoveryTxn], <<>>) ELSE <<>>

\* C39: for each transaction Redo left in active_txn, Undo applies the inverse
\* of every data record on its prev_lsn chain once, in decreasing LSN order,
\* down to the record whose prev_lsn is not in lsn_mapping, and nothing else.
C39_UndoInvertsChain ==
    [][(rv.stage = "redone" /\ rv'.stage = "undone" /\ rv'.status = "ok")
        => rv'.inverse = ToUndo(rv)]_vars

\* C40: a NEWPAGE record with a valid prev_page_id never fails the assert of
\* Redo: the predecessor's link is set when it was INVALID and is the newly
\* allocated page otherwise, whatever the disk held and also in a second Redo.
C40_LinkIsNewPage ==
    (rv.stage = "redone" /\ rv.scn.new_page /\ rv.scn.prev # INVALID_PAGE_ID)
        => /\ rv.status # "assert"
           /\ rv.status = "ok" => rv.table[rv.scn.prev].next_page_id = rv.next_page_id - 1

\* ------------------------------------------------- the replacer's claims
\* The frame ids a ClockReplacer(num_pages) is called with.
ReplacerFrameIds == 0 .. (NumPages - 1)

\* replacer->Unpin(frame_id)
ReplacerUnpin(frame_id) ==
    /\ clock_set' = Unpin(clock_set, frame_id)
    /\ cur_ptr' = cur_ptr
    /\ cr_ret' = ReplacerCall("Unpin", frame_id, FALSE)

\* replacer->Pin(frame_id)
ReplacerPin(frame_id) ==
    /\ clock_set' = Pin(clock_set, cur_ptr, frame_id).cs
    /\ cur_ptr' = Pin(clock_set, cur_ptr, frame_id).cur
    /\ cr_ret' = ReplacerCall("Pin", frame_id, FALSE)

\* replacer->Victim(&frame_id)
ReplacerVictim ==
    \E v \in Victim(clock_set, cur_ptr) :
        /\ clock_set' = v.cs
        /\ cur_ptr' = v.cur
        /\ cr_ret' = ReplacerCall("Victim", v.frame, v.found)

outsideReplacer == <<pages, page_table, free_list, disk, next_page_id, deallocated, ret,
                     persistent_lsn, ht, live, ht_ret, calls, lm, wire, rv, bp, hp, rw>>

InitReplacer ==
    /\ PoolInit
    /\ persistent_lsn = INVALID_LSN
    /\ TableIdle
    /\ LogIdle

NextReplacer ==
    \/ \E f \in ReplacerFrameIds : ReplacerUnpin(f) /\ UNCHANGED outsideReplacer
    \/ \E f \in ReplacerFrameIds : ReplacerPin(f) /\ UNCHANGED outsideReplacer
    \/ ReplacerVictim /\ UNCHANGED outsideReplacer

\* A ClockReplacer on its own: any sequence of Unpin, Pin and Victim.
SpecReplacer == InitReplacer /\ [][NextReplacer]_vars

\* The k-th position of the circular order that starts at the hand.
ClockOrder(cs, cur, k) == ((cur + k) % Len(cs)) + 1

\* How far from the hand the first entry with reference bit 0 is; a full
\* revolution when every bit is set.
FirstClear(cs, cur) ==
    IF \E k \in 0 .. (Len(cs) - 1) : cs[ClockOrder(cs, cur, k)][2] = 0
    THEN CHOOSE k \in 0 .. (Len(cs) - 1) :
             /\ cs[ClockOrder(cs, cur, k)][2] = 0
             /\ \A j \in 0 .. (k - 1) : cs[ClockOrder(cs, cur, j)][2] # 0
    ELSE Len(cs)

\* The entries passed before the victim have their reference bit cleared.
Passed(cs, cur) ==
    [i \in 1 .. Len(cs) |->
        IF \E k \in 0 .. (FirstClear(cs, cur) - 1) : ClockOrder(cs, cur, k) = i
        THEN <<cs[i][1], 0>>
        ELSE cs[i]]

\* C24: Victim returns none iff the replacer is empty; on a non-empty replacer
\* it returns and removes the first entry at or after the hand, in circular
\* order, whose reference bit is 0 once the bit of every entry passed is
\* cleared, and Size decreases by exactly one.
C24_VictimContract ==
    [][cr_ret'.op = "Victim"
        => /\ cr_ret'.found <=> Size(clock_set) # 0
           /\ Size(clock_set) # 0
                => /\ Size(clock_set') = Size(clock_set) - 1
                   /\ cr_ret'.frame_id
                        = clock_set[ClockOrder(clock_set, cur_ptr, FirstClear(clock_set, cur_ptr))][1]
                   /\ clock_set' = RemoveAt(Passed(clock_set, cur_ptr),
                                            ClockOrder(clock_set, cur_ptr, FirstClear(clock_set, cur_ptr)))]_vars

\* C25: whenever the replacer is non-empty the hand is an index of the
\* sequence.
C25_HandInRange == Size(clock_set) # 0 => cur_ptr < Size(clock_set)

\* ------------------------------------------------- the pool latch's claim
\* std::lock_guard<std::mutex> lock(latch_), lines 325, 370, 408, 453, 471
PoolLock(t) ==
    /\ bp.thr[t].pc = "idle"
    /\ bp.latch = NoLatch
    /\ bp.ops < MaxPoolCalls
    /\ bp' = [Stepped(t, "lock") EXCEPT !.latch = t, !.thr[t].pc = "locked", !.ops = @ + 1]
    /\ UNCHANGED <<poolState, ret>>

\* The body of a call behind its lock_guard, and the release on return.
Locked(t, body) ==
    /\ bp.thr[t].pc = "locked"
    /\ body
    /\ bp' = [Stepped(t, "body") EXCEPT !.latch = NoLatch, !.thr[t].pc = "idle"]

\* FlushPageImpl, lines 388-393: the lookup in page_table_ and the test of
\* is_dirty_; the call returns here when there is nothing to write, and before
\* it looks at anything when page_id is INVALID_PAGE_ID.
FlushPageFind(t, page_id) ==
    /\ bp.thr[t].pc = "idle"
    /\ bp.ops < MaxPoolCalls
    /\ IF page_id = INVALID_PAGE_ID
       THEN /\ ret' = Call("FlushPage", page_id, FALSE, 0, NullFrame, INVALID_PAGE_ID)
            /\ bp' = [Stepped(t, "return") EXCEPT !.ops = @ + 1]
       ELSE IF page_id \in DOMAIN page_table /\ pages[page_table[page_id]].is_dirty
       THEN /\ ret' = ret
            /\ bp' = [Stepped(t, "find") EXCEPT !.ops = @ + 1, !.thr[t].pc = "found",
                                                !.thr[t].page_id = page_id,
                                                !.thr[t].frame_id = page_table[page_id]]
       ELSE /\ ret' = Call("FlushPage", page_id, FALSE, 1, NullFrame, INVALID_PAGE_ID)
            /\ bp' = [Stepped(t, "find") EXCEPT !.ops = @ + 1]
    /\ UNCHANGED poolState

\* FlushPageImpl, lines 394-395: the frame's bytes as they are now go to disk
\* under page_id, and the dirty bit is cleared.
FlushPageWrite(t) ==
    /\ bp.thr[t].pc = "found"
    /\ disk' = WritePage(disk, bp.thr[t].page_id, pages[bp.thr[t].frame_id].data)
    /\ pages' = [pages EXCEPT ![bp.thr[t].frame_id].is_dirty = FALSE]
    /\ ret' = Call("FlushPage", bp.thr[t].page_id, FALSE, 1, bp.thr[t].frame_id, INVALID_PAGE_ID)
    /\ bp' = [Stepped(t, "write") EXCEPT !.thr[t].pc = "idle"]
    /\ UNCHANGED <<page_table, free_list, clock_set, cur_ptr, next_page_id, deallocated>>

\* The holder of a frame pointer writes the page's bytes.
UserWrite(f, b) ==
    /\ WriteData(f, b)
    /\ bp' = Stepped(NoLatch, "data")

outsideLatch == <<persistent_lsn, ht, live, ht_ret, calls, lm, wire, rv, cr_ret, hp, rw>>

NextLatch ==
    \/ \E t \in PoolThreads : PoolLock(t) /\ UNCHANGED outsideLatch
    \/ \E t \in PoolThreads, p \in PageIds : Locked(t, FetchPageImpl(p)) /\ UNCHANGED outsideLatch
    \/ \E t \in PoolThreads, p \in PageIds, d \in BOOLEAN :
          Locked(t, UnpinPageImpl(p, d)) /\ UNCHANGED outsideLatch
    \/ \E t \in PoolThreads : Locked(t, NewPageImpl) /\ UNCHANGED outsideLatch
    \/ \E t \in PoolThreads, p \in PageIds : Locked(t, DeletePageImpl(p)) /\ UNCHANGED outsideLatch
    \/ \E t \in PoolThreads : Locked(t, FlushAllPagesImpl) /\ UNCHANGED outsideLatch
    \/ \E t \in PoolThreads, p \in PageIds \cup {INVALID_PAGE_ID} :
          FlushPageFind(t, p) /\ UNCHANGED outsideLatch
    \/ \E t \in PoolThreads : FlushPageWrite(t) /\ UNCHANGED outsideLatch
    \/ \E f \in Frames, b \in Data : UserWrite(f, b) /\ UNCHANGED outsideLatch

\* The public operations of one pool called from two threads.
SpecLatch == Init /\ [][NextLatch]_vars

\* C26: every step of a public operation that reads or writes page_table_ or
\* frame metadata is taken by a thread that holds the pool latch.
C26_AccessUnderLatch ==
    [][bp'.step \in {"body", "find", "write"} => bp.latch = bp'.by]_vars

\* C28: after construction with any num_buckets and after every successful
\* grow, size_ is SLOTS_PER_PAGE times the number of block page ids in the
\* header page.
C28_SizeIsWholeBlocks ==
    (ht.status = "ok" /\ ht_ret.status = "ok" /\ (ht_ret.op = "Init" \/ (ht_ret.resized /\ ~ht_ret.grow_failed)))
        => ht.size = SlotsPerPage * NumBlocks(ht)

\* The logical slots the probe loop of GetValue inspects, in order.
RECURSIVE GetValueVisits(_, _, _)
GetValueVisits(T, pos, seen) ==
    IF ~IsOccupied(T, pos) \/ pos + 1 >= T.size
    THEN Append(seen, pos)
    ELSE GetValueVisits(T, pos + 1, Append(seen, pos))

\* The logical slots the probe loop of Remove inspects, in order.
RECURSIVE RemoveVisits(_, _, _, _, _)
RemoveVisits(T, key, value, pos, seen) ==
    IF ~IsOccupied(T, pos)
       \/ (IsReadable(T, pos) /\ KeyAt(T, pos) = key /\ ValueAt(T, pos) = value)
       \/ pos + 1 >= T.size
    THEN Append(seen, pos)
    ELSE RemoveVisits(T, key, value, pos + 1, Append(seen, pos))

\* The circular probe from start: one slot at a time, from the last logical
\* slot on to slot 0, up to the first non-occupied slot or back at start.
RECURSIVE CircularProbe(_, _, _, _)
CircularProbe(T, start, k, seen) ==
    IF k >= T.size
    THEN seen
    ELSE IF ~IsOccupied(T, (start + k) % T.size)
    THEN Append(seen, (start + k) % T.size)
    ELSE CircularProbe(T, start, k + 1, Append(seen, (start + k) % T.size))

\* The circular probe of Remove ends at the first slot that holds the pair.
UpToMatch(T, key, value, path) ==
    IF \E i \in 1 .. Len(path) :
          IsReadable(T, path[i]) /\ KeyAt(T, path[i]) = key /\ ValueAt(T, path[i]) = value
    THEN SubSeq(path, 1, CHOOSE i \in 1 .. Len(path) :
             /\ IsReadable(T, path[i]) /\ KeyAt(T, path[i]) = key /\ ValueAt(T, path[i]) = value
             /\ \A j \in 1 .. (i - 1) :
                   ~(IsReadable(T, path[j]) /\ KeyAt(T, path[j]) = key /\ ValueAt(T, path[j]) = value))
    ELSE path

\* C29: the probe of GetValue and Remove starts at hash(key) mod size, advances
\* one slot at a time, goes on from the last logical slot at slot 0, and stops
\* only at a non-occupied slot or when it is back at its start.
C29_ProbeWraps ==
    Usable(ht)
        => \A key \in Keys :
              /\ GetValueVisits(ht, GetHash(key) % ht.size, <<>>)
                    = CircularProbe(ht, GetHash(key) % ht.size, 0, <<>>)
              /\ \A value \in Values :
                    RemoveVisits(ht, key, value, GetHash(key) % ht.size, <<>>)
                       = UpToMatch(ht, key, value, CircularProbe(ht, GetHash(key) % ht.size, 0, <<>>))

\* ------------------------------------------ the claims about the pages
PagesInit ==
    \E num_buckets \in 1 .. MaxBuckets :
        /\ ht = Constructed(num_buckets)
        /\ hp = PoolReplay(NoPages, ResizeRun(FirstTable, MainThread, num_buckets).pool, 1)
        /\ live = {}
        /\ ht_ret = HTCall("Init", MainThread, 0, 0, FirstTable, FALSE)
        /\ calls = NoCalls

PagedInsert(key, value) ==
    /\ hp.calls < MaxTableCalls
    /\ Insert(key, value)
    /\ hp' = AfterCall(InsertRun(ht, MainThread, key, value).pool)

PagedRemove(key, value) ==
    /\ hp.calls < MaxTableCalls
    /\ Remove(key, value)
    /\ hp' = AfterCall(RemoveRun(ht, MainThread, key, value).pool)

PagedGetValue(key) ==
    /\ hp.calls < MaxTableCalls
    /\ GetValue(key)
    /\ hp' = AfterCall(GetValueCalls(ht, key))

PagedResize(initial_size) ==
    /\ hp.calls < MaxTableCalls
    /\ Resize(initial_size)
    /\ hp' = AfterCall(ResizeRun(ht, MainThread, initial_size).pool)

outsidePages == <<pages, page_table, free_list, clock_set, cur_ptr, disk, next_page_id,
                  deallocated, ret, persistent_lsn, lm, wire, rv, cr_ret, bp, rw>>

InitPages ==
    /\ PoolInit
    /\ persistent_lsn = INVALID_LSN
    /\ PagesInit
    /\ lm = FirstLog
    /\ rw = FirstLatch
    /\ bp = PoolIdle
    /\ cr_ret = ReplacerCall("Init", NullFrame, FALSE)
    /\ rv = NoRecovery
    /\ wire = NoWire

NextPages ==
    \/ \E key \in Keys, value \in Values : PagedInsert(key, value) /\ UNCHANGED outsidePages
    \/ \E key \in Keys, value \in Values : PagedRemove(key, value) /\ UNCHANGED outsidePages
    \/ \E key \in Keys : PagedGetValue(key) /\ UNCHANGED outsidePages
    \/ \E n \in 1 .. (MaxBlocks * SlotsPerPage) : PagedResize(n) /\ UNCHANGED outsidePages

\* The hash table called by one thread, with the pins and dirty bits of its
\* pages.
SpecPages == InitPages /\ [][NextPages]_vars

\* The block page of the logical slot pos.
PageOfSlot(T, pos) == GetBlockPageId(T, pos \div SlotsPerPage)

\* C27: a successful Remove marks the block page of the slot it cleared dirty,
\* a successful Insert the block page of the slot it wrote (calls that did
\* not grow the table, so that the slot is the one slot that changed).
C27_ChangedPageDirty ==
    [][(/\ ht_ret'.op \in {"Insert", "Remove"}
        /\ ht_ret'.result
        /\ ht_ret'.status = "ok"
        /\ ~ht_ret'.resized
        /\ ~ht_ret'.grow_failed
        /\ hp'.calls = hp.calls + 1)
         => \A pos \in 0 .. (Len(ht.slots) - 1) :
               ht'.slots[pos + 1] # ht.slots[pos + 1] => hp'.is_dirty[PageOfSlot(ht', pos)]]_vars

\* C30: GetValue, Insert, Remove and Resize leave the pin count of every page
\* as it was before the call.
C30_PinsBalanced ==
    (ht_ret.op \in {"GetValue", "Insert", "Remove", "Resize"} /\ ht_ret.status = "ok")
        => hp.pin_count = hp.before

\* --------------------------------------------- the reader-writer latch alone
\* Threads call RLock/RUnlock and WLock/WUnlock in pairs, as the hash table
\* does.
\* WLock up to its first wait or its return.
LatchWLock(t) ==
    /\ rw.thr[t] = "idle"
    /\ rw' = IF WriterLeft(rw) THEN WriterEnters(rw, t) ELSE At(rw, t, "wait_writer")

\* WLock, line 44: reader_.wait returns and no writer is entered.
LatchWLockWake(t) ==
    /\ rw.thr[t] = "wait_writer"
    /\ WriterLeft(rw)
    /\ rw' = WriterEnters(rw, t)

\* WLock, line 49: writer_.wait returns and no reader is counted.
LatchWLockDrained(t) ==
    /\ rw.thr[t] = "wait_readers"
    /\ ReadersLeft(rw)
    /\ rw' = At(rw, t, "writing")

\* WUnlock by the thread that holds the write latch.
LatchWUnlock(t) ==
    /\ rw.thr[t] = "writing"
    /\ rw' = At([rw EXCEPT !.writer_entered = FALSE], t, "idle")

\* RLock up to its wait or its return.
LatchRLock(t) ==
    /\ rw.thr[t] = "idle"
    /\ rw' = IF RLockPasses(rw) THEN ReaderEnters(rw, t) ELSE At(rw, t, "wait_read")

\* RLock, line 70: reader_.wait returns and the loop condition is false.
LatchRLockWake(t) ==
    /\ rw.thr[t] = "wait_read"
    /\ RLockPasses(rw)
    /\ rw' = ReaderEnters(rw, t)

\* RUnlock by a thread that holds the read latch.
LatchRUnlock(t) ==
    /\ rw.thr[t] = "reading"
    /\ rw' = At([rw EXCEPT !.reader_count = (@ - 1) % (MAX_READERS + 1)], t, "idle")

outsideRW == <<pages, page_table, free_list, clock_set, cur_ptr, disk, next_page_id, deallocated,
               persistent_lsn, ht, live, ht_ret, calls, lm, wire, ret, rv, cr_ret, bp, hp>>

NextRW ==
    \/ \E t \in RWThreads : LatchWLock(t) /\ UNCHANGED outsideRW
    \/ \E t \in RWThreads : LatchWLockWake(t) /\ UNCHANGED outsideRW
    \/ \E t \in RWThreads : LatchWLockDrained(t) /\ UNCHANGED outsideRW
    \/ \E t \in RWThreads : LatchWUnlock(t) /\ UNCHANGED outsideRW
    \/ \E t \in RWThreads : LatchRLock(t) /\ UNCHANGED outsideRW
    \/ \E t \in RWThreads : LatchRLockWake(t) /\ UNCHANGED outsideRW
    \/ \E t \in RWThreads : LatchRUnlock(t) /\ UNCHANGED outsideRW

SpecRW == Init /\ [][NextRW]_vars

Writers(L) == {t \in RWThreads : L.thr[t] = "writing"}

Readers(L) == {t \in RWThreads : L.thr[t] = "reading"}

\* A writer that entered and waits for the readers to drain, or holds the latch.
EnteredWriters(L) == {t \in RWThreads : L.thr[t] \in {"wait_readers", "writing"}}

\* C32: a thread returns from WLock only when no reader and no other writer
\* holds the latch; from the moment a writer waits for the readers to drain
\* until its WUnlock no RLock returns; no state has a writer together with a
\* reader or a second writer.
C32_WriterExcludes ==
    [][/\ \A t \in Writers(rw') \ Writers(rw) : Readers(rw) = {} /\ Writers(rw) = {}
       /\ EnteredWriters(rw) # {} => Readers(rw') \subseteq Readers(rw)
       /\ Writers(rw') # {} => (Readers(rw') = {} /\ Cardinality(Writers(rw')) = 1)]_vars

\* A writer waits for a reader to leave while a third thread waits in RLock.
C32_Witness ==
    \E w, r, q \in RWThreads :
        rw.thr[w] = "wait_readers" /\ rw.thr[r] = "reading" /\ rw.thr[q] = "wait_read"

====
